---- MODULE Spec2Model ----
(***************************************************************************)
(* A model of the pilosa node runtime: the View (shard -> fragment        *)
(* mapping with its maxShard watermark), the Server broadcaster           *)
(* (SendSync / SendAsync), the Server life cycle (Open, Close and the     *)
(* three background monitors) and the signal handling of Command.Wait.    *)
(***************************************************************************)
EXTENDS Integers, Sequences, FiniteSets, TLC

(***************************************************************************)
(* Bounds and constants                                                    *)
(***************************************************************************)
ShardWidth == 1048576

MaxShardN == 1

MaxOps == 3

MaxNodes == 3

MaxCalls == 2

MaxThreads == 2

MaxTicks == 2

MaxSignals == 2

\* capacity of the signal channel of Wait: make(chan os.Signal, 2)
SigBuffer == 2

\* the callers of Command.Close: Wait on a signal, and an external caller
Closers == {"wait", "ext"}

\* the background tasks started by Server.Open
Tasks == {"monitorAntiEntropy", "monitorRuntime", "monitorDiagnostics"}

MaxThreadOps == 1

\* the highest shard a peer reports
MaxRemoteShard == 1

\* messages a node handles in one run
MaxHolderOps == 2

\* NodeStatus messages handed to HandleRemoteStatus in one run
MaxStatuses == 1

\* fragments a reduction goes over
MaxFrags == 3

\* the highest value stored in a field
MaxVal == 2

\* the highest number of columns a fragment counts
MaxCount == 1

\* calls made on one logger
MaxLogs == 3

\* the highest shard and the number of calls in the runs that follow the
\* watermark of one view
MaxWmShard == 2

MaxWmOps == 4

Threads == 1..MaxThreads

Shards == 0..MaxShardN

\* node URIs; the local node has the first one
URIs == 1..MaxNodes

Messages == {"CreateShardMessage", "CreateViewMessage"}

Rows == {7}

\* the first and the last column of every shard
Columns == UNION {{s * ShardWidth, (s + 1) * ShardWidth - 1} : s \in Shards}

Bits == Rows \X Columns

None == "none"

\* "no shard": no fragment fails
NoShard == 0 - 1

\* the exit status of a process that has not exited
NoExit == 0 - 1

VARIABLES
    vState,      \* life cycle of the View object: "new", "open", "closed"
    fragments,   \* View.fragments: shard -> fragment (a function on the shards present)
    maxShard,    \* View.maxShard
    files,       \* fragments directory: shard -> bits stored in the fragment file
    sent,        \* CreateShardMessage broadcasts of the view: <<[shard, ok]>>
    last,        \* the operation that ran last, with its arguments and results
    prev,        \* name and column of the operation before it
    nops,        \* number of operations run so far
    fresh        \* the fragments directory was empty when the view was made

viewVars == <<vState, fragments, maxShard, files, sent, last, prev, nops, fresh>>

VARIABLES
    nodes,       \* Server.cluster.Nodes: the URIs of the nodes, in list order
    uri,         \* Server.URI
    bPc,         \* the broadcaster call in progress: "idle", "loop", "done"
    bCall,       \* the call that ran last: "none", "SendSync", "SendAsync"
    bMsg,        \* its message
    bIdx,        \* SendSync: position of the loop over cluster.Nodes
    running,     \* errgroup: nodes whose SendMessage goroutine has not returned
    results,     \* errgroup: node -> result of its SendMessage ("ok", "err")
    firstErr,    \* errgroup: the first non-nil error recorded, or None
    outbox,      \* <<node, message>> pairs handed to defaultClient.SendMessage
    bRet,        \* result of the call: None while running, "nil" or an error
    bCalls       \* number of broadcaster calls made

sendVars == <<nodes, uri, bPc, bCall, bMsg, bIdx, running, results, firstErr,
              outbox, bRet, bCalls>>

VARIABLES
    tPc,         \* per thread: the statement of a View method it is about to run
    tShard,      \* per thread: the shard argument of its call
    tRes,        \* per thread: the result of its last call
    tCnt,        \* per thread: number of calls made
    muW,         \* View.mu: the threads holding the write lock (at most one)
    muR,         \* View.mu: the threads holding a read lock
    crashed      \* the runtime ended the process on a concurrent map access

thrVars == <<tPc, tShard, tRes, tCnt, muW, muR, crashed>>

VARIABLES
    sPc,         \* Server: the statement of Open / Close the caller is at
    closing,     \* Server.closing is closed
    wg,          \* Server.wg: the counter of the WaitGroup
    task,        \* per background task: "none", "start", "select", "work", "done"
    taskRuns,    \* per background task: syncs / polls / flushes completed
    taskErrs,    \* per background task: those that ended with an error
    holder,      \* Holder: "new", "open", "closed"
    clusterSt,   \* cluster: "new", "started", "ready", "listening", "closed"
    translate,   \* TranslateFile: "new", "open", "closed"
    intervals,   \* antiEntropyInterval, metricInterval, diagnosticInterval: enabled or not
    openErr      \* the error Open returned, None when it returned nil or has not returned

srvVars == <<sPc, closing, wg, task, taskRuns, taskErrs, holder, clusterSt,
             translate, intervals, openErr>>

VARIABLES
    started,     \* Command.Start: "no", "ok" (returned nil), "failed"
    wPc,         \* Command.Wait: "idle", "select", "closing", "returned"
    waitVia,     \* the case of the select Wait took: None, "signal", "done"
    waitRet,     \* the result of Wait: None, "nil", "err"
    sigQ,        \* signals buffered in the channel c of Wait
    sigSent,     \* interrupt / terminate signals delivered to the process
    hardPc,      \* the goroutine of the second signal: "none", "waiting", "exited"
    exitStatus,  \* status of os.Exit, None while the process has not exited
    done,        \* Command.done is closed
    closePc,     \* per caller of Command.Close: the statement it is at
    closeRes,    \* per caller of Command.Close: its result
    handlerCl,   \* number of Handler.Close calls made
    handlerErr,  \* per caller: Handler.Close returned an error
    logErr,      \* per caller: closing the log output returned an error
    logCloser,   \* Command.logOutput is an io.Closer
    panicked     \* the process ended on close of a closed channel

cmdVars == <<started, wPc, waitVia, waitRet, sigQ, sigSent, hardPc, exitStatus,
             done, closePc, closeRes, handlerCl, handlerErr, logErr, logCloser,
             panicked>>

VARIABLES
    hState,       \* Holder: "new", "opening", "open"
    opened,       \* Holder.opened is closed (the one-shot event has fired)
    clusterState, \* cluster.State()
    hIndexes,     \* the indexes of the holder (names)
    hFields,      \* the fields of the holder: <<index, field>>
    hViews,       \* the views of the holder: <<index, field, view>>
    localMax,     \* per index: the highest shard of its own fragments
    remoteMax,    \* per index: Index.remoteMaxShard
    reported,     \* per index: the shards peers have reported (by a CreateShard
                  \* message or a status merged without error) since it exists
    status,       \* per NodeStatus handed to HandleRemoteStatus: its fate
    hLast,        \* the last message ReceiveMessage handled and its outcome
    hOps,         \* messages handled so far
    hPanic        \* the process ended on a nil pointer dereference

holderVars == <<hState, opened, clusterState, hIndexes, hFields, hViews, localMax,
                remoteMax, reported, status, hLast, hOps, hPanic>>

VARIABLES
    aFrags,       \* View.min / max: what each fragment of allFragments() returns
    aOp,          \* the reduction called last: "none", "min", "max"
    aRes          \* its result

aggVars == <<aFrags, aOp, aRes>>

VARIABLES
    cName,        \* View.name
    cFieldType,   \* the cache type of the field the view belongs to
    cCacheType,   \* View.cacheType
    cState,       \* the view: "new", "open", "closed"
    cDisk,        \* the shards with a fragment file in the view's directory
    cFrags        \* shard -> fragment.CacheType of the fragments of the mapping

cacheVars == <<cName, cFieldType, cCacheType, cState, cDisk, cFrags>>

VARIABLES
    suPc,         \* Command.SetupServer: the statement it is at
    cfg,          \* Command.Config: bind scheme, TLS paths, diagnostics
    suErr,        \* the error SetupServer returned
    suLogger,     \* Command.logger is set up
    suTLS,        \* the TLS configuration was built
    suLn,         \* Command.ln: the listener is open
    suServer,     \* Command.Server is constructed
    suAPI,        \* Command.API is constructed
    suHandler     \* Command.Handler is constructed

setupVars == <<suPc, cfg, suErr, suLogger, suTLS, suLn, suServer, suAPI, suHandler>>

VARIABLES
    stPc,         \* Command.Start: the statement it is at
    stErr,        \* the error Start returned, None for nil or not returned
    startedN,     \* number of times Command.Started has been closed
    stSeen        \* where Start was when a receiver on Started was released

startVars == <<stPc, stErr, startedN, stSeen>>

VARIABLES
    lgKind,       \* the logger: "standard" or "verbose"
    lgLevel,      \* its logLevel
    lgOut,        \* the lines handed to log.Logger.Output
    lgLast,       \* the last method called and whether it emitted a line
    lgCalls       \* number of calls made

logVars == <<lgKind, lgLevel, lgOut, lgLast, lgCalls>>

moreVars == <<startVars, logVars>>

auxVars == <<holderVars, aggVars, cacheVars, setupVars, moreVars>>

vars == <<viewVars, sendVars, thrVars, srvVars, cmdVars, auxVars>>

(***************************************************************************)
(* Fragment primitives                                                     *)
(***************************************************************************)
\* fragment.go newFragment: a fragment object of one shard, not yet opened
\* (origin records who made it: openFragments "disk", createFragmentIfNotExists "runtime")
newFragment(shard) == [shard |-> shard, open |-> FALSE, origin |-> "disk"]

\* fragment.Open: opens (creating it when missing) the fragment file
FragOpenFiles(fls, shard) ==
    IF shard \in DOMAIN fls THEN fls
    ELSE [s \in DOMAIN fls \cup {shard} |-> IF s = shard THEN {} ELSE fls[s]]

\* fragment.setBit / fragment.clearBit / fragment.row on the stored bits
FragSetBit(bits, rowID, columnID) == bits \cup {<<rowID, columnID>>}

FragClearBit(bits, rowID, columnID) == bits \ {<<rowID, columnID>>}

FragRow(bits, rowID) == {b[2] : b \in {x \in bits : x[1] = rowID}}

\* a write to a fragment succeeds when its file is open and the I/O succeeds
FragWritable(frag, ioOk) == frag.open /\ ioOk

\* a map without one key / with one key set
MapDelete(m, k) == [s \in DOMAIN m \ {k} |-> m[s]]

MapPut(m, k, v) == [s \in DOMAIN m \cup {k} |-> IF s = k THEN v ELSE m[s]]

EmptyMap == [s \in {} |-> {}]

(***************************************************************************)
(* View                                                                    *)
(***************************************************************************)
\* View.close: closes the fragments in map order; the first failing Close
\* returns, otherwise the mapping is replaced by an empty one.
\* failAt: the fragment whose Close fails (NoShard: no failure);
\* before: the fragments visited before it.
close(frs, failAt, before) ==
    IF failAt = NoShard
    THEN [fragments |-> EmptyMap, err |-> FALSE]
    ELSE [fragments |-> [s \in DOMAIN frs |->
                            IF s \in before THEN [frs[s] EXCEPT !.open = FALSE]
                            ELSE frs[s]],
          err |-> TRUE]

\* View.openFragments: one fragment per numeric file name of the directory;
\* the first failing Open returns with the fragments opened so far.
openFragments(frs, fls, failAt, before) ==
    LET todo == IF failAt = NoShard THEN DOMAIN fls ELSE before
    IN [fragments |-> [s \in DOMAIN frs \cup todo |->
                          IF s \in todo THEN [newFragment(s) EXCEPT !.open = TRUE]
                          ELSE frs[s]],
        err |-> failAt # NoShard]

\* a createFragmentIfNotExists that broadcasts every fragment it creates
createFragmentIfNotExists_alwayssend(frs, fls, ms, snt, shard, openOk, sendOk) ==
    IF shard \in DOMAIN frs
    THEN [fragments |-> frs, files |-> fls, maxShard |-> ms, sent |-> snt,
          err |-> FALSE, bcast |-> "none"]
    ELSE IF ~openOk
    THEN [fragments |-> frs, files |-> fls, maxShard |-> ms, sent |-> snt,
          err |-> TRUE, bcast |-> "none"]
    ELSE LET fls2 == FragOpenFiles(fls, shard)
             frag == [newFragment(shard) EXCEPT !.open = TRUE, !.origin = "runtime"]
             ms2 == IF shard > ms THEN shard ELSE ms
         IN IF ~sendOk
            THEN [fragments |-> frs, files |-> fls2, maxShard |-> ms2,
                  sent |-> Append(snt, [shard |-> shard, ok |-> FALSE]),
                  err |-> TRUE, bcast |-> "fail"]
            ELSE [fragments |-> MapPut(frs, shard, frag), files |-> fls2,
                  maxShard |-> ms2,
                  sent |-> Append(snt, [shard |-> shard, ok |-> TRUE]),
                  err |-> FALSE, bcast |-> "ok"]

\* View.createFragmentIfNotExists
createFragmentIfNotExists(frs, fls, ms, snt, shard, openOk, sendOk) ==
    IF shard \in DOMAIN frs
    THEN [fragments |-> frs, files |-> fls, maxShard |-> ms, sent |-> snt,
          err |-> FALSE, bcast |-> "none"]
    ELSE IF ~openOk
    THEN [fragments |-> frs, files |-> fls, maxShard |-> ms, sent |-> snt,
          err |-> TRUE, bcast |-> "none"]
    ELSE LET fls2 == FragOpenFiles(fls, shard)
             frag == [newFragment(shard) EXCEPT !.open = TRUE, !.origin = "runtime"]
         IN IF shard > ms
            THEN IF ~sendOk
                 THEN [fragments |-> frs, files |-> fls2, maxShard |-> shard,
                       sent |-> Append(snt, [shard |-> shard, ok |-> FALSE]),
                       err |-> TRUE, bcast |-> "fail"]
                 ELSE [fragments |-> MapPut(frs, shard, frag), files |-> fls2,
                       maxShard |-> shard,
                       sent |-> Append(snt, [shard |-> shard, ok |-> TRUE]),
                       err |-> FALSE, bcast |-> "ok"]
            ELSE [fragments |-> MapPut(frs, shard, frag), files |-> fls2,
                  maxShard |-> ms, sent |-> snt, err |-> FALSE, bcast |-> "none"]

\* View.row: the union of the rows of all fragments
row(frs, fls, rowID) ==
    UNION {FragRow(fls[s], rowID) : s \in DOMAIN frs \cap DOMAIN fls}

\* View.open: the directories are made, then the fragments found on disk are
\* opened; on an error the view is closed (the error of close is dropped).
open(frs, fls, mkdirOk, failAt, before, cFailAt, cBefore) ==
    IF ~mkdirOk
    THEN [fragments |-> close(frs, cFailAt, cBefore).fragments, err |-> TRUE]
    ELSE LET o == openFragments(frs, fls, failAt, before)
         IN IF o.err
            THEN [fragments |-> close(o.fragments, cFailAt, cBefore).fragments,
                  err |-> TRUE]
            ELSE [fragments |-> o.fragments, err |-> FALSE]

\* a deleteFragment that fails when the cache file cannot be removed
deleteFragment_cachefatal(frs, fls, shard, closeOk, removeOk, cacheOk) ==
    IF shard \notin DOMAIN frs
    THEN [fragments |-> frs, files |-> fls, err |-> "ErrFragmentNotFound"]
    ELSE IF ~closeOk
    THEN [fragments |-> frs, files |-> fls, err |-> "closing fragment"]
    ELSE IF ~removeOk \/ shard \notin DOMAIN fls
    THEN [fragments |-> MapPut(frs, shard, [frs[shard] EXCEPT !.open = FALSE]),
          files |-> fls, err |-> "deleting fragment file"]
    ELSE IF ~cacheOk
    THEN [fragments |-> MapPut(frs, shard, [frs[shard] EXCEPT !.open = FALSE]),
          files |-> MapDelete(fls, shard), err |-> "deleting cache file"]
    ELSE [fragments |-> MapDelete(frs, shard), files |-> MapDelete(fls, shard),
          err |-> None]

\* View.deleteFragment; closeOk, removeOk, cacheOk: the outcomes of
\* fragment.Close, of removing the fragment file and of removing its cache
\* file (which fails when there is none, and is only logged)
deleteFragment(frs, fls, shard, closeOk, removeOk, cacheOk) ==
    IF shard \notin DOMAIN frs
    THEN [fragments |-> frs, files |-> fls, err |-> "ErrFragmentNotFound"]
    ELSE IF ~closeOk
    THEN [fragments |-> frs, files |-> fls, err |-> "closing fragment"]
    ELSE IF ~removeOk \/ shard \notin DOMAIN fls
    THEN [fragments |-> MapPut(frs, shard, [frs[shard] EXCEPT !.open = FALSE]),
          files |-> fls, err |-> "deleting fragment file"]
    ELSE [fragments |-> MapDelete(frs, shard), files |-> MapDelete(fls, shard),
          err |-> None]

\* a shard computed one column early: the last column of a shard goes to the next one
ShardOf_early(columnID) == (columnID + 1) \div ShardWidth

\* the shard a column belongs to (setBit, clearBit: columnID / ShardWidth)
ShardOf(columnID) == columnID \div ShardWidth

\* View.setBit
setBit(frs, fls, ms, snt, rowID, columnID, openOk, sendOk, ioOk) ==
    LET shard == ShardOf(columnID)
        c == createFragmentIfNotExists(frs, fls, ms, snt, shard, openOk, sendOk)
    IN IF c.err
       THEN [c EXCEPT !.err = TRUE] @@ [changed |-> FALSE]
       ELSE IF ~FragWritable(c.fragments[shard], ioOk)
       THEN [c EXCEPT !.err = TRUE] @@ [changed |-> FALSE]
       ELSE [c EXCEPT !.files = MapPut(c.files, shard,
                                       FragSetBit(c.files[shard], rowID, columnID))]
            @@ [changed |-> <<rowID, columnID>> \notin c.files[shard]]

\* a clearBit that looks the fragment up under another shard than setBit
clearBit_othershard(frs, fls, rowID, columnID, ioOk) ==
    LET shard == (columnID + 1) \div ShardWidth
    IN IF shard \notin DOMAIN frs
       THEN [files |-> fls, changed |-> FALSE, err |-> FALSE, found |-> FALSE]
       ELSE IF ~FragWritable(frs[shard], ioOk) \/ shard \notin DOMAIN fls
       THEN [files |-> fls, changed |-> FALSE, err |-> TRUE, found |-> TRUE]
       ELSE [files |-> MapPut(fls, shard, FragClearBit(fls[shard], rowID, columnID)),
             changed |-> <<rowID, columnID>> \in fls[shard],
             err |-> FALSE, found |-> TRUE]

\* a clearBit that reports a missing fragment as an error
clearBit_notfounderr(frs, fls, rowID, columnID, ioOk) ==
    LET shard == ShardOf(columnID)
    IN IF shard \notin DOMAIN frs
       THEN [files |-> fls, changed |-> FALSE, err |-> TRUE, found |-> FALSE]
       ELSE IF ~FragWritable(frs[shard], ioOk) \/ shard \notin DOMAIN fls
       THEN [files |-> fls, changed |-> FALSE, err |-> TRUE, found |-> TRUE]
       ELSE [files |-> MapPut(fls, shard, FragClearBit(fls[shard], rowID, columnID)),
             changed |-> <<rowID, columnID>> \in fls[shard],
             err |-> FALSE, found |-> TRUE]

\* View.clearBit
clearBit(frs, fls, rowID, columnID, ioOk) ==
    LET shard == ShardOf(columnID)
    IN IF shard \notin DOMAIN frs
       THEN [files |-> fls, changed |-> FALSE, err |-> FALSE, found |-> FALSE]
       ELSE IF ~FragWritable(frs[shard], ioOk) \/ shard \notin DOMAIN fls
       THEN [files |-> fls, changed |-> FALSE, err |-> TRUE, found |-> TRUE]
       ELSE [files |-> MapPut(fls, shard, FragClearBit(fls[shard], rowID, columnID)),
             changed |-> <<rowID, columnID>> \in fls[shard],
             err |-> FALSE, found |-> TRUE]

(***************************************************************************)
(* The parts of the node that take no step                                 *)
(***************************************************************************)
SendQuiet ==
    /\ nodes = <<>>
    /\ uri = 1
    /\ bPc = "idle"
    /\ bCall = "none"
    /\ bMsg = None
    /\ bIdx = 0
    /\ running = {}
    /\ results = <<>>
    /\ firstErr = None
    /\ outbox = {}
    /\ bRet = None
    /\ bCalls = 0

ThreadsQuiet ==
    /\ tPc = [t \in Threads |-> "idle"]
    /\ tShard = [t \in Threads |-> 0]
    /\ tRes = [t \in Threads |-> None]
    /\ tCnt = [t \in Threads |-> 0]
    /\ muW = {}
    /\ muR = {}
    /\ crashed = FALSE

ServerQuiet ==
    /\ sPc = "new"
    /\ closing = FALSE
    /\ wg = 0
    /\ task = [k \in Tasks |-> "none"]
    /\ taskRuns = [k \in Tasks |-> 0]
    /\ taskErrs = [k \in Tasks |-> 0]
    /\ holder = "new"
    /\ clusterSt = "new"
    /\ translate = "new"
    /\ intervals = [k \in Tasks |-> FALSE]
    /\ openErr = None

CommandQuiet ==
    /\ started = "no"
    /\ wPc = "idle"
    /\ waitVia = None
    /\ waitRet = None
    /\ sigQ = 0
    /\ sigSent = 0
    /\ hardPc = "none"
    /\ exitStatus = NoExit
    /\ done = FALSE
    /\ closePc = [c \in Closers |-> "none"]
    /\ closeRes = [c \in Closers |-> None]
    /\ handlerCl = 0
    /\ handlerErr = [c \in Closers |-> FALSE]
    /\ logErr = [c \in Closers |-> FALSE]
    /\ logCloser = FALSE
    /\ panicked = FALSE

IndexNames == {"i", "j"}

FieldNames == {"f"}

ViewNames == {"standard"}

\* the shards a peer reports
RemoteShards == 0..MaxRemoteShard

StatusIds == 1..MaxStatuses

\* the result of a reduction: value, count, error
NoResult == [val |-> 0, count |-> 0, err |-> FALSE]

\* cache types of a field
CacheTypeNone == "none"

DefaultCacheType == "ranked"

CacheTypes == {"ranked", "lru", "none"}

\* a configuration not yet read
NoConfig == [scheme |-> "none", cert |-> "", key |-> ""]

\* a NodeStatus: the sending node, the indexes of its schema, its max shards
NoBody == [node |-> "none", schema |-> {}, maxShards |-> <<>>]

\* a NodeStatus not yet handed to HandleRemoteStatus
NoStatus == [st |-> "unsent", atState |-> "none", body |-> NoBody, hAt |-> "none",
             err |-> None]

HolderQuiet ==
    /\ hState = "new"
    /\ opened = FALSE
    /\ clusterState = "STARTING"
    /\ hIndexes = {}
    /\ hFields = {}
    /\ hViews = {}
    /\ localMax = [i \in IndexNames |-> 0]
    /\ remoteMax = [i \in IndexNames |-> 0]
    /\ reported = [i \in IndexNames |-> {}]
    /\ status = [n \in StatusIds |-> NoStatus]
    /\ hLast = [type |-> "none", err |-> None, missing |-> FALSE,
                changed |-> FALSE]
    /\ hOps = 0
    /\ hPanic = FALSE

AggQuiet ==
    /\ aFrags = <<>>
    /\ aOp = "none"
    /\ aRes = NoResult

CacheQuiet ==
    /\ cName = <<>>
    /\ cFieldType = DefaultCacheType
    /\ cCacheType = DefaultCacheType
    /\ cState = "new"
    /\ cDisk = {}
    /\ cFrags = <<>>

SetupQuiet ==
    /\ suPc = "idle"
    /\ cfg = NoConfig
    /\ suErr = None
    /\ suLogger = FALSE
    /\ suTLS = FALSE
    /\ suLn = FALSE
    /\ suServer = FALSE
    /\ suAPI = FALSE
    /\ suHandler = FALSE

StartQuiet ==
    /\ stPc = "idle"
    /\ stErr = None
    /\ startedN = 0
    /\ stSeen = None

NoLine == [method |-> "none", emitted |-> FALSE]

LogQuiet ==
    /\ lgKind = "none"
    /\ lgLevel = 0
    /\ lgOut = <<>>
    /\ lgLast = NoLine
    /\ lgCalls = 0

MoreQuiet ==
    /\ StartQuiet
    /\ LogQuiet

AuxQuiet ==
    /\ HolderQuiet
    /\ AggQuiet
    /\ CacheQuiet
    /\ SetupQuiet
    /\ MoreQuiet

ViewQuiet ==
    /\ vState = "new"
    /\ fragments = <<>>
    /\ maxShard = 0
    /\ files = <<>>
    /\ sent = <<>>
    /\ last = [op |-> "init"]
    /\ prev = [op |-> "init"]
    /\ nops = 0
    /\ fresh = TRUE

(***************************************************************************)
(* The View driven by one caller at a time                                 *)
(***************************************************************************)
\* what a deleteFragment call met: the outcomes of its three file operations,
\* its error, and whether it left the mapping as it was / without its shard only
NoDelete == [closeOk |-> TRUE, removeOk |-> TRUE, cacheOk |-> TRUE, why |-> None,
             same |-> TRUE, only |-> FALSE]

NoOp == [op |-> "init", shard |-> 0, row |-> 0, col |-> 0, err |-> FALSE,
         changed |-> FALSE, bcast |-> "none", preMax |-> 0, had |-> FALSE,
         del |-> NoDelete]

NoPrev == [op |-> "init", row |-> 0, col |-> 0, err |-> FALSE]

Summary(l) == [op |-> l.op, row |-> l.row, col |-> l.col, err |-> l.err]

\* the bits a fragment file of a shard can hold: the columns of its range
BitsOf(shard) ==
    {b \in Bits : shard * ShardWidth <= b[2] /\ b[2] < (shard + 1) * ShardWidth}

\* the directories a view is opened on: any set of fragment files, each one
\* empty or holding the first column of its shard in every row
DiskStates ==
    UNION {{[s \in S |-> IF s \in F THEN {b \in BitsOf(s) : b[2] = s * ShardWidth} ELSE {}] :
               F \in SUBSET S} : S \in SUBSET Shards}

InitView ==
    /\ vState = "new"
    /\ fragments = EmptyMap
    /\ maxShard = 0
    /\ files \in DiskStates
    /\ sent = <<>>
    /\ last = NoOp
    /\ prev = NoPrev
    /\ nops = 0
    /\ fresh = (DOMAIN files = {})
    /\ SendQuiet
    /\ ThreadsQuiet
    /\ ServerQuiet
    /\ CommandQuiet
    /\ AuxQuiet

Step ==
    /\ nops < MaxOps
    /\ nops' = nops + 1
    /\ prev' = Summary(last)
    /\ UNCHANGED fresh
    /\ UNCHANGED <<sendVars, thrVars, srvVars, cmdVars, auxVars>>

ViewOpen ==
    /\ vState = "new"
    /\ Step
    /\ \E mkdirOk \in BOOLEAN, failAt \in DOMAIN files \cup {NoShard} :
       \E before \in SUBSET (DOMAIN files \ {failAt}) :
       \E cFailAt \in before \cup {NoShard} :
       \E cBefore \in SUBSET (before \ {cFailAt}) :
          LET r == open(fragments, files, mkdirOk, failAt, before, cFailAt, cBefore)
          IN /\ fragments' = r.fragments
             /\ vState' = IF r.err THEN "failed" ELSE "open"
             /\ last' = [NoOp EXCEPT !.op = "open", !.err = r.err, !.preMax = maxShard]
    /\ UNCHANGED <<maxShard, files, sent>>

ViewClose ==
    /\ vState = "open"
    /\ Step
    /\ \E failAt \in DOMAIN fragments \cup {NoShard} :
       \E before \in SUBSET (DOMAIN fragments \ {failAt}) :
          LET r == close(fragments, failAt, before)
          IN /\ fragments' = r.fragments
             /\ vState' = "closed"
             /\ last' = [NoOp EXCEPT !.op = "close", !.err = r.err, !.preMax = maxShard]
    /\ UNCHANGED <<maxShard, files, sent>>

CreateFragmentIfNotExists ==
    /\ vState = "open"
    /\ Step
    /\ \E shard \in Shards, openOk \in BOOLEAN, sendOk \in BOOLEAN :
          \* a step that is not reached is given no outcome
          /\ ~openOk => sendOk
          /\ LET r == createFragmentIfNotExists(fragments, files, maxShard, sent,
                                                shard, openOk, sendOk)
             IN /\ fragments' = r.fragments
                /\ files' = r.files
                /\ maxShard' = r.maxShard
                /\ sent' = r.sent
                /\ last' = [NoOp EXCEPT !.op = "create", !.shard = shard,
                                        !.err = r.err, !.bcast = r.bcast,
                                        !.preMax = maxShard,
                                        !.had = shard \in DOMAIN fragments]
    /\ UNCHANGED vState

DeleteFragment ==
    /\ vState = "open"
    /\ Step
    /\ \E shard \in Shards, closeOk \in BOOLEAN, removeOk \in BOOLEAN,
          cacheOk \in BOOLEAN :
          /\ ~closeOk => removeOk
          /\ (~closeOk \/ ~removeOk \/ shard \notin DOMAIN fragments) => cacheOk
          /\ shard \notin DOMAIN fragments => closeOk /\ removeOk
          /\ LET r == deleteFragment(fragments, files, shard, closeOk, removeOk,
                                     cacheOk)
             IN /\ fragments' = r.fragments
                /\ files' = r.files
                /\ last' = [NoOp EXCEPT !.op = "delete", !.shard = shard,
                                        !.err = r.err # None, !.preMax = maxShard,
                                        !.had = shard \in DOMAIN fragments,
                                        !.del = [closeOk |-> closeOk,
                                                 removeOk |-> removeOk,
                                                 cacheOk |-> cacheOk,
                                                 why |-> r.err,
                                                 same |-> r.fragments = fragments
                                                          /\ r.files = files,
                                                 only |-> r.fragments =
                                                          MapDelete(fragments, shard)]]
    /\ UNCHANGED <<vState, maxShard, sent>>

SetBit ==
    /\ vState = "open"
    /\ Step
    /\ \E b \in Bits, openOk \in BOOLEAN, sendOk \in BOOLEAN, ioOk \in BOOLEAN :
          /\ ~openOk => sendOk
          /\ ~(openOk /\ sendOk) => ioOk
          /\ LET r == setBit(fragments, files, maxShard, sent, b[1], b[2],
                             openOk, sendOk, ioOk)
             IN /\ fragments' = r.fragments
                /\ files' = r.files
                /\ maxShard' = r.maxShard
                /\ sent' = r.sent
                /\ last' = [NoOp EXCEPT !.op = "setBit", !.shard = ShardOf(b[2]),
                                        !.row = b[1], !.col = b[2],
                                        !.err = r.err, !.changed = r.changed,
                                        !.bcast = r.bcast, !.preMax = maxShard,
                                        !.had = ShardOf(b[2]) \in DOMAIN fragments]
    /\ UNCHANGED vState

ClearBit ==
    /\ vState = "open"
    /\ Step
    /\ \E b \in Bits, ioOk \in BOOLEAN :
          LET r == clearBit(fragments, files, b[1], b[2], ioOk)
          IN /\ files' = r.files
             /\ last' = [NoOp EXCEPT !.op = "clearBit", !.shard = ShardOf(b[2]),
                                     !.row = b[1], !.col = b[2],
                                     !.err = r.err, !.changed = r.changed,
                                     !.preMax = maxShard, !.had = r.found]
    /\ UNCHANGED <<vState, fragments, maxShard, sent>>

NextView ==
    \/ ViewOpen
    \/ ViewClose
    \/ CreateFragmentIfNotExists
    \/ DeleteFragment
    \/ SetBit
    \/ ClearBit

SpecView == InitView /\ [][NextView]_vars

(***************************************************************************)
(* Properties of the View                                                  *)
(***************************************************************************)
\* the shard whose column range [s*ShardWidth, (s+1)*ShardWidth) holds the column
RangeShard(columnID) ==
    CHOOSE s \in Shards : s * ShardWidth <= columnID /\ columnID < (s + 1) * ShardWidth

\* C1: every fragment present in the mapping, loaded by open or created at
\* runtime, has a shard not above the maxShard watermark.
C1_FragmentsBelowWatermark ==
    \A s \in DOMAIN fragments : s <= maxShard

\* C2: a fragment of shard s > 0 created at runtime is in the mapping only
\* when a CreateShard broadcast of a shard >= s has succeeded.
C2_CreatedShardWasBroadcast ==
    \A s \in DOMAIN fragments :
        (s > 0 /\ fragments[s].origin = "runtime")
            => \E i \in 1..Len(sent) : sent[i].ok /\ sent[i].shard >= s

\* C3: a CreateFragmentIfNotExists whose broadcast fails returns an error,
\* registers no fragment for the shard and leaves maxShard as it was.
C3_FailedBroadcastRolledBack ==
    (last.op = "create" /\ last.bcast = "fail")
        => /\ last.err
           /\ last.shard \notin DOMAIN fragments
           /\ maxShard = last.preMax

\* C7: a successful setBit(row, col) leaves the bit in the fragment of the
\* shard whose range holds col (made when absent) and in no other fragment;
\* on a view made on an empty directory, set(7, ShardWidth-1) then
\* set(7, ShardWidth) leave exactly the fragments 0 and 1 and row(7) is
\* both columns.
C7_SetBitRoutesByShard ==
    /\ (last.op = "setBit" /\ ~last.err)
          => /\ RangeShard(last.col) \in DOMAIN fragments
             /\ RangeShard(last.col) \in DOMAIN files
             /\ <<last.row, last.col>> \in files[RangeShard(last.col)]
             /\ \A t \in DOMAIN files \ {RangeShard(last.col)} :
                    <<last.row, last.col>> \notin files[t]
    /\ ( /\ fresh /\ nops = 3
         /\ prev = [op |-> "setBit", row |-> 7, col |-> ShardWidth - 1, err |-> FALSE]
         /\ last.op = "setBit" /\ last.row = 7 /\ last.col = ShardWidth /\ ~last.err )
          => /\ DOMAIN fragments = {0, 1}
             /\ row(fragments, files, 7) = {ShardWidth - 1, ShardWidth}

C7_Witness ==
    /\ fresh /\ nops = 3
    /\ prev = [op |-> "setBit", row |-> 7, col |-> ShardWidth - 1, err |-> FALSE]
    /\ last.op = "setBit" /\ last.row = 7 /\ last.col = ShardWidth /\ ~last.err
    /\ ~last.had
    /\ DOMAIN fragments = {0, 1}

\* C8: after a successful setBit(r, c), row(r) contains c; after a successful
\* setBit(r, c) followed by a successful clearBit(r, c), the clearBit found
\* the fragment and the bit the setBit wrote, and row(r) does not contain c.
C8_SetClearRow ==
    /\ (last.op = "setBit" /\ ~last.err)
          => last.col \in row(fragments, files, last.row)
    /\ ( /\ prev.op = "setBit" /\ ~prev.err
         /\ last.op = "clearBit" /\ ~last.err
         /\ last.row = prev.row /\ last.col = prev.col )
          => /\ last.had
             /\ last.changed
             /\ last.col \notin row(fragments, files, last.row)

C8_Witness ==
    /\ prev.op = "setBit" /\ ~prev.err
    /\ last.op = "clearBit" /\ ~last.err
    /\ last.row = prev.row /\ last.col = prev.col
    /\ last.col \notin row(fragments, files, last.row)
    /\ \E c \in Columns : c \in row(fragments, files, last.row)

\* C16: deleteFragment returns nil and removes exactly its shard from the
\* mapping whenever the shard has a fragment, the fragment closes and its
\* file is removed, also when the cache file cannot be removed; it fails only
\* for a shard without fragment (the view is left as it was), a failing Close
\* or a failing removal of the fragment file.
C16_DeleteIgnoresMissingCacheFile ==
    last.op = "delete"
        => /\ last.del.why \in {None, "ErrFragmentNotFound", "closing fragment",
                                "deleting fragment file"}
           /\ (last.del.why = None)
                 <=> (last.had /\ last.del.closeOk /\ last.del.removeOk)
           /\ last.del.why = None
                 => last.del.only /\ last.shard \notin DOMAIN fragments
           /\ ~last.had => last.del.why = "ErrFragmentNotFound" /\ last.del.same
           /\ (last.had /\ ~last.del.closeOk) => last.del.why = "closing fragment"
           /\ (last.had /\ last.del.closeOk /\ ~last.del.removeOk)
                 => last.del.why = "deleting fragment file"

C16_Witness ==
    /\ last.op = "delete"
    /\ last.had
    /\ ~last.del.cacheOk
    /\ last.del.why = None
    /\ last.shard \notin DOMAIN fragments

\* C17: when View.open fails, it leaves no partially opened state: the
\* mapping is empty and no fragment it opened is left open.
C17_FailedOpenLeavesNothingOpen ==
    (last.op = "open" /\ last.err)
        => /\ fragments = EmptyMap
           /\ \A s \in DOMAIN fragments : ~fragments[s].open

\* C29: every fragment of the mapping is open, whatever operations ran
\* before and however they ended.
C29_MappedFragmentsAreOpen ==
    \A s \in DOMAIN fragments : fragments[s].open

\* C29 for a view that is open: neither a failed open nor a close has run.
C29_MappedFragmentsAreOpenInOpenView ==
    vState = "open" => \A s \in DOMAIN fragments : fragments[s].open

\* C26: clearBit on a column whose shard has no fragment returns
\* changed = false and no error, and changes nothing: no fragment is made, no
\* file is written, maxShard stays and nothing is broadcast.
C26_ClearBitOnMissingFragment ==
    [][(nops' = nops + 1 /\ last'.op = "clearBit"
           /\ last'.shard \notin DOMAIN fragments)
          => /\ ~last'.changed
             /\ ~last'.err
             /\ fragments' = fragments
             /\ files' = files
             /\ maxShard' = maxShard
             /\ sent' = sent]_vars

\* clearBit of a column of shard 1, which has no fragment and lies above the
\* watermark
C26_Witness ==
    /\ last.op = "clearBit"
    /\ last.shard = 1
    /\ ~last.had
    /\ maxShard = 0
    /\ 1 \notin DOMAIN fragments
    /\ 0 \in DOMAIN fragments

(***************************************************************************)
(* Server as broadcaster: SendSync, SendAsync                              *)
(***************************************************************************)
Range(f) == {f[i] : i \in DOMAIN f}

\* the node lists a cluster can have: distinct nodes, in any order
NodeLists ==
    UNION {{q \in [1..n -> URIs] : \A i, j \in 1..n : i # j => q[i] # q[j]} : n \in 0..MaxNodes}

\* SendSync: "Don't forward the message to ourselves"
Forwards(local, node) == local # node

\* errgroup.Group.Wait: the first non-nil error, nil when there is none
egWait(first) == IF first = None THEN "nil" ELSE first

InitSend ==
    /\ ViewQuiet
    /\ ThreadsQuiet
    /\ ServerQuiet
    /\ CommandQuiet
    /\ AuxQuiet
    /\ nodes \in NodeLists
    /\ uri = 1
    /\ bPc = "idle"
    /\ bCall = "none"
    /\ bMsg = None
    /\ bIdx = 0
    /\ running = {}
    /\ results = <<>>
    /\ firstErr = None
    /\ outbox = {}
    /\ bRet = None
    /\ bCalls = 0

\* SendSync is entered: a new errgroup
SendSyncCall ==
    /\ bPc \in {"idle", "done"}
    /\ bCalls < MaxCalls
    /\ \E m \in Messages : bMsg' = m
    /\ bCalls' = bCalls + 1
    /\ bCall' = "SendSync"
    /\ bPc' = "loop"
    /\ bIdx' = 1
    /\ running' = {}
    /\ results' = <<>>
    /\ firstErr' = None
    /\ outbox' = {}
    /\ bRet' = None
    /\ UNCHANGED <<nodes, uri>>
    /\ UNCHANGED <<viewVars, thrVars, srvVars, cmdVars, auxVars>>

\* one iteration of the loop over s.cluster.Nodes
SendSyncLoop ==
    /\ bPc = "loop"
    /\ bIdx <= Len(nodes)
    /\ bIdx' = bIdx + 1
    /\ IF Forwards(uri, nodes[bIdx])
       THEN /\ running' = running \cup {nodes[bIdx]}
            /\ outbox' = outbox \cup {<<nodes[bIdx], bMsg>>}
       ELSE UNCHANGED <<running, outbox>>
    /\ UNCHANGED <<nodes, uri, bPc, bCall, bMsg, results, firstErr, bRet, bCalls>>
    /\ UNCHANGED <<viewVars, thrVars, srvVars, cmdVars, auxVars>>

\* a goroutine of the errgroup: defaultClient.SendMessage returns
SendMessageReturn ==
    /\ bPc = "loop"
    /\ \E n \in running, ok \in BOOLEAN :
          /\ running' = running \ {n}
          /\ results' = MapPut(results, n, IF ok THEN "ok" ELSE "err")
          /\ firstErr' = IF ~ok /\ firstErr = None THEN "err" ELSE firstErr
    /\ UNCHANGED <<nodes, uri, bPc, bCall, bMsg, bIdx, outbox, bRet, bCalls>>
    /\ UNCHANGED <<viewVars, thrVars, srvVars, cmdVars, auxVars>>

\* a return that does not wait for the goroutines
SendSyncReturn_nowait ==
    /\ bPc = "loop"
    /\ bIdx > Len(nodes)
    /\ bRet' = egWait(firstErr)
    /\ bPc' = "done"
    /\ UNCHANGED <<nodes, uri, bCall, bMsg, bIdx, running, results, firstErr,
                   outbox, bCalls>>
    /\ UNCHANGED <<viewVars, thrVars, srvVars, cmdVars, auxVars>>

\* eg.Wait(): every goroutine has returned
SendSyncReturn ==
    /\ bPc = "loop"
    /\ bIdx > Len(nodes)
    /\ running = {}
    /\ bRet' = egWait(firstErr)
    /\ bPc' = "done"
    /\ UNCHANGED <<nodes, uri, bCall, bMsg, bIdx, running, results, firstErr,
                   outbox, bCalls>>
    /\ UNCHANGED <<viewVars, thrVars, srvVars, cmdVars, auxVars>>

\* SendAsync: return ErrNotImplemented
SendAsync ==
    /\ bPc \in {"idle", "done"}
    /\ bCalls < MaxCalls
    /\ \E m \in Messages : bMsg' = m
    /\ bCalls' = bCalls + 1
    /\ bCall' = "SendAsync"
    /\ bPc' = "done"
    /\ bIdx' = 0
    /\ running' = {}
    /\ results' = <<>>
    /\ firstErr' = None
    /\ outbox' = {}
    /\ bRet' = "ErrNotImplemented"
    /\ UNCHANGED <<nodes, uri>>
    /\ UNCHANGED <<viewVars, thrVars, srvVars, cmdVars, auxVars>>

NextSend ==
    \/ SendSyncCall
    \/ SendSyncLoop
    \/ SendMessageReturn
    \/ SendSyncReturn
    \/ SendAsync

SpecSend == InitSend /\ [][NextSend]_vars

\* the nodes of the cluster other than the local node
Peers == Range(nodes) \ {uri}

\* C4: SendSync never sends to the local node; when it has returned, the
\* message was sent to every other node of the cluster, every send has
\* finished, and the result is an error exactly when a send failed.
C4_SendSyncContract ==
    /\ (bCall = "SendSync") => \A p \in outbox : p[1] # uri
    /\ (bCall = "SendSync" /\ bPc = "done")
          => /\ {p[1] : p \in outbox} = Peers
             /\ \A p \in outbox : p[2] = bMsg
             /\ running = {}
             /\ DOMAIN results = Peers
             /\ (bRet # "nil") <=> (\E n \in Peers : results[n] = "err")

C4_Witness ==
    /\ bCall = "SendSync" /\ bPc = "done"
    /\ uri \in Range(nodes)
    /\ Cardinality(Peers) >= 2
    /\ \E n \in Peers : results[n] = "err"
    /\ \E n \in Peers : results[n] = "ok"
    /\ bRet = "err"

\* C5: when SendAsync has returned, the message has been handed off for
\* delivery to every peer.
C5_SendAsyncHandsOff ==
    (bCall = "SendAsync" /\ bPc = "done")
        => /\ {p[1] : p \in outbox} = Peers
           /\ \A p \in outbox : p[2] = bMsg

(***************************************************************************)
(* The View called by several threads: every statement that locks,        *)
(* unlocks, reads or writes v.fragments is one step                        *)
(***************************************************************************)
\* statements that read v.fragments
ReadPcs == {"fr_read", "af_read", "cf_find", "df_read", "cb_read"}

\* statements that write v.fragments
WritePcs == {"cf_save", "df_delete", "cl_close"}

\* first statement of each method
EntryPc ==
    [Fragment |-> "fr_lock", allFragments |-> "af_lock",
     CreateFragmentIfNotExists |-> "cf_lock", deleteFragment |-> "df_read",
     clearBit |-> "cb_read", close |-> "cl_lock"]

\* sync.RWMutex: Lock waits for the writer and the readers, RLock for the writer
CanLock == muW = {} /\ muR = {}

CanRLock == muW = {}

\* two threads are at accesses of v.fragments, one of them a write
Race ==
    \E t1, t2 \in Threads :
        t1 # t2 /\ tPc[t1] \in WritePcs /\ tPc[t2] \in ReadPcs \cup WritePcs

Goto(t, pc) == tPc' = [tPc EXCEPT ![t] = pc]

Return(t, res) ==
    /\ tPc' = [tPc EXCEPT ![t] = "idle"]
    /\ tRes' = [tRes EXCEPT ![t] = res]

InitThreads ==
    /\ SendQuiet
    /\ ServerQuiet
    /\ CommandQuiet
    /\ AuxQuiet
    /\ vState = "open"
    /\ files \in DiskStates
    /\ fragments = openFragments(EmptyMap, files, NoShard, {}).fragments
    /\ maxShard = 0
    /\ sent = <<>>
    /\ last = NoOp
    /\ prev = NoPrev
    /\ nops = 0
    /\ fresh = (DOMAIN files = {})
    /\ ThreadsQuiet

ThreadFrame ==
    UNCHANGED <<sendVars, srvVars, cmdVars, auxVars, vState, last, prev, nops, fresh, crashed>>

\* a thread calls a method of the view
TCall ==
    \E t \in Threads, m \in DOMAIN EntryPc, shard \in Shards :
        /\ tPc[t] = "idle"
        /\ tCnt[t] < MaxThreadOps
        /\ m \in {"allFragments", "close"} => shard = 0
        /\ tCnt' = [tCnt EXCEPT ![t] = @ + 1]
        /\ tShard' = [tShard EXCEPT ![t] = shard]
        /\ tRes' = [tRes EXCEPT ![t] = None]
        /\ Goto(t, EntryPc[m])
        /\ UNCHANGED <<fragments, files, maxShard, sent, muW, muR>>
        /\ ThreadFrame

\* a Lock that does not wait for the holders of the lock
TLock_nowait ==
    \E t \in Threads :
        /\ tPc[t] \in {"af_lock", "cf_lock", "cl_lock"}
        /\ muW' = muW \cup {t}
        /\ Goto(t, CASE tPc[t] = "af_lock" -> "af_read"
                     [] tPc[t] = "cf_lock" -> "cf_find"
                     [] tPc[t] = "cl_lock" -> "cl_close")
        /\ UNCHANGED <<fragments, files, maxShard, sent, muR, tShard, tRes, tCnt>>
        /\ ThreadFrame

\* v.mu.Lock() of allFragments, CreateFragmentIfNotExists and close
TLock ==
    \E t \in Threads :
        /\ tPc[t] \in {"af_lock", "cf_lock", "cl_lock"}
        /\ CanLock
        /\ muW' = {t}
        /\ Goto(t, CASE tPc[t] = "af_lock" -> "af_read"
                     [] tPc[t] = "cf_lock" -> "cf_find"
                     [] tPc[t] = "cl_lock" -> "cl_close")
        /\ UNCHANGED <<fragments, files, maxShard, sent, muR, tShard, tRes, tCnt>>
        /\ ThreadFrame

\* v.mu.RLock() of Fragment
TRLock ==
    \E t \in Threads :
        /\ tPc[t] = "fr_lock"
        /\ CanRLock
        /\ muR' = muR \cup {t}
        /\ Goto(t, "fr_read")
        /\ UNCHANGED <<fragments, files, maxShard, sent, muW, tShard, tRes, tCnt>>
        /\ ThreadFrame

\* the deferred v.mu.Unlock() / v.mu.RUnlock()
TUnlock ==
    \E t \in Threads :
        /\ tPc[t] \in {"af_unlock", "cf_unlock", "cl_unlock", "fr_unlock"}
        /\ muW' = muW \ {t}
        /\ muR' = muR \ {t}
        /\ Goto(t, "idle")
        /\ UNCHANGED <<fragments, files, maxShard, sent, tShard, tRes, tCnt>>
        /\ ThreadFrame

\* Fragment: return v.fragment(shard)
TFragmentRead ==
    \E t \in Threads :
        /\ tPc[t] = "fr_read"
        /\ tRes' = [tRes EXCEPT ![t] =
                       IF tShard[t] \in DOMAIN fragments THEN "found" ELSE "nil"]
        /\ Goto(t, "fr_unlock")
        /\ UNCHANGED <<fragments, files, maxShard, sent, muW, muR, tShard, tCnt>>
        /\ ThreadFrame

\* allFragments: the loop over v.fragments
TAllFragmentsRead ==
    \E t \in Threads :
        /\ tPc[t] = "af_read"
        /\ tRes' = [tRes EXCEPT ![t] = "found"]
        /\ Goto(t, "af_unlock")
        /\ UNCHANGED <<fragments, files, maxShard, sent, muW, muR, tShard, tCnt>>
        /\ ThreadFrame

\* createFragmentIfNotExists: the lookup, then newFragment and frag.Open
TCreateFind ==
    \E t \in Threads, openOk \in BOOLEAN :
        /\ tPc[t] = "cf_find"
        /\ IF tShard[t] \in DOMAIN fragments
           THEN /\ openOk
                /\ tRes' = [tRes EXCEPT ![t] = "found"]
                /\ Goto(t, "cf_unlock")
                /\ UNCHANGED files
           ELSE IF ~openOk
           THEN /\ tRes' = [tRes EXCEPT ![t] = "opening fragment"]
                /\ Goto(t, "cf_unlock")
                /\ UNCHANGED files
           ELSE /\ files' = FragOpenFiles(files, tShard[t])
                /\ Goto(t, "cf_bcast")
                /\ UNCHANGED tRes
        /\ UNCHANGED <<fragments, maxShard, sent, muW, muR, tShard, tCnt>>
        /\ ThreadFrame

\* createFragmentIfNotExists: the watermark and the CreateShardMessage broadcast
TCreateBroadcast ==
    \E t \in Threads, sendOk \in BOOLEAN :
        /\ tPc[t] = "cf_bcast"
        /\ IF tShard[t] > maxShard
           THEN /\ maxShard' = tShard[t]
                /\ sent' = Append(sent, [shard |-> tShard[t], ok |-> sendOk])
                /\ IF sendOk
                   THEN Goto(t, "cf_save") /\ UNCHANGED tRes
                   ELSE /\ tRes' = [tRes EXCEPT ![t] = "sending createshard message"]
                        /\ Goto(t, "cf_unlock")
           ELSE /\ sendOk
                /\ Goto(t, "cf_save")
                /\ UNCHANGED <<maxShard, sent, tRes>>
        /\ UNCHANGED <<fragments, files, muW, muR, tShard, tCnt>>
        /\ ThreadFrame

\* createFragmentIfNotExists: v.fragments[shard] = frag
TCreateSave ==
    \E t \in Threads :
        /\ tPc[t] = "cf_save"
        /\ fragments' = MapPut(fragments, tShard[t],
                               [newFragment(tShard[t]) EXCEPT !.open = TRUE,
                                                              !.origin = "runtime"])
        /\ tRes' = [tRes EXCEPT ![t] = "created"]
        /\ Goto(t, "cf_unlock")
        /\ UNCHANGED <<files, maxShard, sent, muW, muR, tShard, tCnt>>
        /\ ThreadFrame

\* deleteFragment: fragment := v.fragments[shard]
TDeleteRead ==
    \E t \in Threads :
        /\ tPc[t] = "df_read"
        /\ IF tShard[t] \in DOMAIN fragments
           THEN Goto(t, "df_close") /\ UNCHANGED tRes
           ELSE Return(t, "ErrFragmentNotFound")
        /\ UNCHANGED <<fragments, files, maxShard, sent, muW, muR, tShard, tCnt>>
        /\ ThreadFrame

\* deleteFragment: fragment.Close() and os.Remove(fragment.path)
TDeleteClose ==
    \E t \in Threads, closeOk \in BOOLEAN, removeOk \in BOOLEAN :
        /\ tPc[t] = "df_close"
        /\ ~closeOk => removeOk
        /\ IF ~closeOk
           THEN /\ Return(t, "closing fragment")
                /\ UNCHANGED <<fragments, files>>
           ELSE /\ fragments' = IF tShard[t] \in DOMAIN fragments
                                THEN MapPut(fragments, tShard[t],
                                            [fragments[tShard[t]] EXCEPT !.open = FALSE])
                                ELSE fragments
                /\ IF ~removeOk \/ tShard[t] \notin DOMAIN files
                   THEN Return(t, "deleting fragment file") /\ UNCHANGED files
                   ELSE /\ files' = MapDelete(files, tShard[t])
                        /\ Goto(t, "df_delete")
                        /\ UNCHANGED tRes
        /\ UNCHANGED <<maxShard, sent, muW, muR, tShard, tCnt>>
        /\ ThreadFrame

\* deleteFragment: delete(v.fragments, shard)
TDeleteDelete ==
    \E t \in Threads :
        /\ tPc[t] = "df_delete"
        /\ fragments' = MapDelete(fragments, tShard[t])
        /\ Return(t, "nil")
        /\ UNCHANGED <<files, maxShard, sent, muW, muR, tShard, tCnt>>
        /\ ThreadFrame

\* clearBit: frag, found := v.fragments[shard]
TClearRead ==
    \E t \in Threads :
        /\ tPc[t] = "cb_read"
        /\ IF tShard[t] \in DOMAIN fragments
           THEN Goto(t, "cb_clear") /\ UNCHANGED tRes
           ELSE Return(t, "nil")
        /\ UNCHANGED <<fragments, files, maxShard, sent, muW, muR, tShard, tCnt>>
        /\ ThreadFrame

\* clearBit: frag.clearBit(rowID, columnID), here of the first column of the shard
TClearBit ==
    \E t \in Threads, r \in Rows, ioOk \in BOOLEAN :
        /\ tPc[t] = "cb_clear"
        /\ IF ioOk /\ tShard[t] \in DOMAIN files
           THEN /\ files' = MapPut(files, tShard[t],
                                   FragClearBit(files[tShard[t]], r, tShard[t] * ShardWidth))
                /\ Return(t, "nil")
           ELSE /\ Return(t, "err")
                /\ UNCHANGED files
        /\ UNCHANGED <<fragments, maxShard, sent, muW, muR, tShard, tCnt>>
        /\ ThreadFrame

\* close: the loop closing the fragments and the new empty map
TClose ==
    \E t \in Threads, failAt \in DOMAIN fragments \cup {NoShard} :
    \E before \in SUBSET (DOMAIN fragments \ {failAt}) :
        /\ tPc[t] = "cl_close"
        /\ LET r == close(fragments, failAt, before)
           IN /\ fragments' = r.fragments
              /\ tRes' = [tRes EXCEPT ![t] = IF r.err THEN "closing fragment" ELSE "nil"]
        /\ Goto(t, "cl_unlock")
        /\ UNCHANGED <<files, maxShard, sent, muW, muR, tShard, tCnt>>
        /\ ThreadFrame

\* the runtime detects the concurrent map access and ends the process
RaceFault ==
    /\ Race
    /\ crashed' = TRUE
    /\ tPc' = [t \in Threads |-> "crashed"]
    /\ UNCHANGED <<sendVars, srvVars, cmdVars, auxVars, viewVars, tShard, tRes, tCnt, muW, muR>>

NextThreads ==
    \/ TCall
    \/ TLock
    \/ TRLock
    \/ TUnlock
    \/ TFragmentRead
    \/ TAllFragmentsRead
    \/ TCreateFind
    \/ TCreateBroadcast
    \/ TCreateSave
    \/ TDeleteRead
    \/ TDeleteClose
    \/ TDeleteDelete
    \/ TClearRead
    \/ TClearBit
    \/ TClose
    \/ RaceFault

SpecThreads == InitThreads /\ [][NextThreads]_vars

\* the thread holds v.mu for reading (the write lock included)
HoldsRead(t) == t \in muR \/ t \in muW

HoldsWrite(t) == t \in muW

\* C6: every read or write of v.fragments is made holding v.mu (a write
\* holding it exclusively), and no thread is at a read or a write of the
\* mapping while another thread is at a write of it.
C6_MappingGuardedByLock ==
    /\ \A t \in Threads :
          /\ tPc[t] \in ReadPcs => HoldsRead(t)
          /\ tPc[t] \in WritePcs => HoldsWrite(t)
    /\ ~Race

\* a view opened on any set of empty fragment files
InitCreators ==
    /\ SendQuiet
    /\ ServerQuiet
    /\ CommandQuiet
    /\ AuxQuiet
    /\ vState = "open"
    /\ files \in UNION {[S -> {{}}] : S \in SUBSET Shards}
    /\ fragments = openFragments(EmptyMap, files, NoShard, {}).fragments
    /\ maxShard = 0
    /\ sent = <<>>
    /\ last = NoOp
    /\ prev = NoPrev
    /\ nops = 0
    /\ fresh = (DOMAIN files = {})
    /\ ThreadsQuiet

\* a thread calls CreateFragmentIfNotExists
TCallCreate ==
    \E t \in Threads, shard \in Shards :
        /\ tPc[t] = "idle"
        /\ tCnt[t] < MaxThreadOps
        /\ tCnt' = [tCnt EXCEPT ![t] = @ + 1]
        /\ tShard' = [tShard EXCEPT ![t] = shard]
        /\ tRes' = [tRes EXCEPT ![t] = None]
        /\ Goto(t, EntryPc["CreateFragmentIfNotExists"])
        /\ UNCHANGED <<fragments, files, maxShard, sent, muW, muR>>
        /\ ThreadFrame

\* the threads call CreateFragmentIfNotExists only
NextCreators ==
    \/ TCallCreate
    \/ TLock
    \/ TUnlock
    \/ TCreateFind
    \/ TCreateBroadcast
    \/ TCreateSave

SpecCreators == InitCreators /\ [][NextCreators]_vars

\* the statements of CreateFragmentIfNotExists between Lock and Unlock
CreatePcs == {"cf_find", "cf_bcast", "cf_save", "cf_unlock"}

\* C24: calls of CreateFragmentIfNotExists are serialised by the view lock,
\* held from the lookup across the broadcast to the registration: a caller
\* between Lock and Unlock holds the lock alone; a fragment is opened only
\* for a shard that has none registered; no shard is broadcast twice; and a
\* successful caller returns the fragment registered for its shard, the one
\* already there when it did not create it.
C24_CreateSerialised ==
    /\ [](\A t \in Threads :
             tPc[t] \in CreatePcs
                 => /\ muW = {t}
                    /\ \A u \in Threads \ {t} : tPc[u] \notin CreatePcs)
    /\ [](\A i, j \in 1..Len(sent) : i # j => sent[i].shard # sent[j].shard)
    /\ [][\A t \in Threads :
             (tPc[t] = "cf_find" /\ tPc'[t] = "cf_bcast")
                 => tShard[t] \notin DOMAIN fragments]_vars
    /\ [][\A t \in Threads :
             (tPc[t] \in {"cf_find", "cf_save"} /\ tPc'[t] = "cf_unlock"
                 /\ tRes'[t] \in {"created", "found"})
                 => /\ tShard[t] \in DOMAIN fragments'
                    /\ tRes'[t] = "found"
                          => /\ tShard[t] \in DOMAIN fragments
                             /\ fragments' = fragments
                    /\ tRes'[t] = "created" => tShard[t] \notin DOMAIN fragments]_vars

\* both threads called CreateFragmentIfNotExists for shard 1, absent at
\* first: one created the fragment and broadcast it, the other found it
C24_Witness ==
    /\ fresh
    /\ \E t, u \in Threads :
          /\ t # u
          /\ tShard[t] = 1 /\ tShard[u] = 1
          /\ tPc[t] = "cf_unlock" /\ tRes[t] = "found"
          /\ tRes[u] = "created"
    /\ Len(sent) = 1
    /\ sent[1].shard = 1

(***************************************************************************)
(* Server life cycle: Open, the three background monitors, Close           *)
(***************************************************************************)
Others == UNCHANGED <<viewVars, sendVars, thrVars, cmdVars, auxVars>>

InitServer ==
    /\ CommandQuiet
    /\ AuxQuiet
    /\ ViewQuiet
    /\ SendQuiet
    /\ ThreadsQuiet
    /\ sPc = "new"
    /\ closing = FALSE
    /\ wg = 0
    /\ task = [k \in Tasks |-> "none"]
    /\ taskRuns = [k \in Tasks |-> 0]
    /\ taskErrs = [k \in Tasks |-> 0]
    /\ holder = "new"
    /\ clusterSt = "new"
    /\ translate = "new"
    /\ intervals \in [Tasks -> BOOLEAN]
    /\ openErr = None

\* Open is called on the new server
OpenCall ==
    /\ sPc = "new"
    /\ sPc' = "open_translate"
    /\ UNCHANGED <<closing, wg, task, taskRuns, taskErrs, holder, clusterSt,
                   translate, intervals, openErr>>
    /\ Others

\* a step of Open fails: Open returns the error
OpenFails(err) ==
    /\ sPc' = "open_failed"
    /\ openErr' = err

\* s.translateFile.Open()
OpenTranslate ==
    /\ sPc = "open_translate"
    /\ \E ok \in BOOLEAN :
          IF ok
          THEN translate' = "open" /\ sPc' = "open_cluster" /\ UNCHANGED openErr
          ELSE OpenFails("translateFile.Open") /\ UNCHANGED translate
    /\ UNCHANGED <<closing, wg, task, taskRuns, taskErrs, holder, clusterSt, intervals>>
    /\ Others

\* s.cluster.waitForStarted()
OpenWaitForStarted ==
    /\ sPc = "open_cluster"
    /\ \E ok \in BOOLEAN :
          IF ok
          THEN clusterSt' = "started" /\ sPc' = "open_holder" /\ UNCHANGED openErr
          ELSE OpenFails("opening Cluster") /\ UNCHANGED clusterSt
    /\ UNCHANGED <<closing, wg, task, taskRuns, taskErrs, holder, translate, intervals>>
    /\ Others

\* an Open that goes on when the holder fails to open
OpenHolder_ignoreerr ==
    /\ sPc = "open_holder"
    /\ \E ok \in BOOLEAN :
          IF ok
          THEN holder' = "open" /\ sPc' = "open_state" /\ UNCHANGED openErr
          ELSE sPc' = "open_state" /\ UNCHANGED <<holder, openErr>>
    /\ UNCHANGED <<closing, wg, task, taskRuns, taskErrs, clusterSt, translate, intervals>>
    /\ Others

\* s.holder.Open()
OpenHolder ==
    /\ sPc = "open_holder"
    /\ \E ok \in BOOLEAN :
          IF ok
          THEN holder' = "open" /\ sPc' = "open_state" /\ UNCHANGED openErr
          ELSE OpenFails("opening Holder") /\ UNCHANGED holder
    /\ UNCHANGED <<closing, wg, task, taskRuns, taskErrs, clusterSt, translate, intervals>>
    /\ Others

\* s.cluster.setNodeState(NodeStateReady)
OpenSetNodeState ==
    /\ sPc = "open_state"
    /\ \E ok \in BOOLEAN :
          IF ok
          THEN clusterSt' = "ready" /\ sPc' = "open_joins" /\ UNCHANGED openErr
          ELSE OpenFails("setting nodeState") /\ UNCHANGED clusterSt
    /\ UNCHANGED <<closing, wg, task, taskRuns, taskErrs, holder, translate, intervals>>
    /\ Others

\* s.cluster.listenForJoins()
OpenListenForJoins ==
    /\ sPc = "open_joins"
    /\ clusterSt' = "listening"
    /\ sPc' = "open_monitors"
    /\ UNCHANGED <<closing, wg, task, taskRuns, taskErrs, holder, translate,
                   intervals, openErr>>
    /\ Others

\* s.wg.Add(3) and the three go statements; return nil
OpenStartMonitors ==
    /\ sPc = "open_monitors"
    /\ wg' = wg + 3
    /\ task' = [k \in Tasks |-> "start"]
    /\ sPc' = "opened"
    /\ UNCHANGED <<closing, taskRuns, taskErrs, holder, clusterSt, translate,
                   intervals, openErr>>
    /\ Others

\* the goroutine of a task returns: defer s.wg.Done()
TaskDone(k) ==
    /\ task' = [task EXCEPT ![k] = "done"]
    /\ wg' = wg - 1

\* a monitor head that enters its loop whatever its interval
TaskStart_nointervalcheck ==
    \E k \in Tasks :
        /\ task[k] = "start"
        /\ task' = [task EXCEPT ![k] =
                       IF k = "monitorDiagnostics" THEN "work" ELSE "select"]
        /\ UNCHANGED wg
        /\ UNCHANGED <<sPc, closing, taskRuns, taskErrs, holder, clusterSt,
                       translate, intervals, openErr>>
        /\ Others

\* the head of a monitor: it returns at once when its interval disables it;
\* monitorDiagnostics flushes once before its loop
TaskStart ==
    \E k \in Tasks :
        /\ task[k] = "start"
        /\ IF ~intervals[k]
           THEN TaskDone(k)
           ELSE /\ task' = [task EXCEPT ![k] =
                               IF k = "monitorDiagnostics" THEN "work" ELSE "select"]
                /\ UNCHANGED wg
        /\ UNCHANGED <<sPc, closing, taskRuns, taskErrs, holder, clusterSt,
                       translate, intervals, openErr>>
        /\ Others

\* select: case <-s.closing: return
TaskSeesClosing ==
    \E k \in Tasks :
        /\ task[k] = "select"
        /\ closing
        /\ TaskDone(k)
        /\ UNCHANGED <<sPc, closing, taskRuns, taskErrs, holder, clusterSt,
                       translate, intervals, openErr>>
        /\ Others

\* select: case <-ticker.C (monitorRuntime: also <-s.gcNotifier.AfterGC()):
\* the sync, the poll or the flush begins
TaskTick ==
    \E k \in Tasks :
        /\ task[k] = "select"
        /\ taskRuns[k] < MaxTicks
        /\ task' = [task EXCEPT ![k] = "work"]
        /\ UNCHANGED <<sPc, closing, wg, taskRuns, taskErrs, holder, clusterSt,
                       translate, intervals, openErr>>
        /\ Others

\* a monitor that returns when its sync, poll or flush ends with an error
TaskWorkEnds_stoponerror ==
    \E k \in Tasks, ok \in BOOLEAN :
        /\ task[k] = "work"
        /\ taskRuns' = [taskRuns EXCEPT ![k] = @ + 1]
        /\ taskErrs' = [taskErrs EXCEPT ![k] = IF ok THEN @ ELSE @ + 1]
        /\ IF ok
           THEN task' = [task EXCEPT ![k] = "select"] /\ UNCHANGED wg
           ELSE TaskDone(k)
        /\ UNCHANGED <<sPc, closing, holder, clusterSt, translate, intervals, openErr>>
        /\ Others

\* SyncHolder, the metrics poll or the flush ends, with or without an error
\* (which is logged), and the loop goes back to its select
TaskWorkEnds ==
    \E k \in Tasks, ok \in BOOLEAN :
        /\ task[k] = "work"
        /\ taskRuns' = [taskRuns EXCEPT ![k] = @ + 1]
        /\ taskErrs' = [taskErrs EXCEPT ![k] = IF ok THEN @ ELSE @ + 1]
        /\ task' = [task EXCEPT ![k] = "select"]
        /\ UNCHANGED <<sPc, closing, wg, holder, clusterSt, translate, intervals, openErr>>
        /\ Others

\* Close: close(s.closing)
CloseSignal ==
    /\ sPc \in {"opened", "open_failed"}
    /\ closing' = TRUE
    /\ sPc' = "close_wait"
    /\ UNCHANGED <<wg, task, taskRuns, taskErrs, holder, clusterSt, translate,
                   intervals, openErr>>
    /\ Others

\* a Close that goes on without waiting for the tasks
CloseWait_nowait ==
    /\ sPc = "close_wait"
    /\ sPc' = "close_cluster"
    /\ UNCHANGED <<closing, wg, task, taskRuns, taskErrs, holder, clusterSt,
                   translate, intervals, openErr>>
    /\ Others

\* Close: s.wg.Wait()
CloseWait ==
    /\ sPc = "close_wait"
    /\ wg = 0
    /\ sPc' = "close_cluster"
    /\ UNCHANGED <<closing, wg, task, taskRuns, taskErrs, holder, clusterSt,
                   translate, intervals, openErr>>
    /\ Others

\* Close: s.cluster.close()
CloseCluster ==
    /\ sPc = "close_cluster"
    /\ clusterSt' = "closed"
    /\ sPc' = "close_holder"
    /\ UNCHANGED <<closing, wg, task, taskRuns, taskErrs, holder, translate,
                   intervals, openErr>>
    /\ Others

\* Close: s.holder.Close()
CloseHolder ==
    /\ sPc = "close_holder"
    /\ holder' = "closed"
    /\ sPc' = "close_translate"
    /\ UNCHANGED <<closing, wg, task, taskRuns, taskErrs, clusterSt, translate,
                   intervals, openErr>>
    /\ Others

\* Close: s.translateFile.Close(); return nil
CloseTranslate ==
    /\ sPc = "close_translate"
    /\ translate' = "closed"
    /\ sPc' = "closed"
    /\ UNCHANGED <<closing, wg, task, taskRuns, taskErrs, holder, clusterSt,
                   intervals, openErr>>
    /\ Others

NextServer ==
    \/ OpenCall
    \/ OpenTranslate
    \/ OpenWaitForStarted
    \/ OpenHolder
    \/ OpenSetNodeState
    \/ OpenListenForJoins
    \/ OpenStartMonitors
    \/ TaskStart
    \/ TaskSeesClosing
    \/ TaskTick
    \/ TaskWorkEnds
    \/ CloseSignal
    \/ CloseWait
    \/ CloseCluster
    \/ CloseHolder
    \/ CloseTranslate

SpecServer == InitServer /\ [][NextServer]_vars

\* the task has been started by Open and its goroutine has not returned
TaskLive(k) == task[k] \in {"start", "select", "work"}

\* C9: the cluster, the holder and the translate file are closed only after
\* the close channel is signalled and every started background task has
\* terminated; no task is at a sync, a poll or a flush (nor can it start one)
\* once the holder is closed.
C9_CloseJoinsTasks ==
    /\ (clusterSt = "closed" \/ holder = "closed" \/ translate = "closed")
          => /\ closing
             /\ \A k \in Tasks : ~TaskLive(k)
             /\ wg = 0
    /\ sPc \in {"close_cluster", "close_holder", "close_translate", "closed"}
          => \A k \in Tasks : ~TaskLive(k)

C9_Witness ==
    /\ sPc = "closed"
    /\ holder = "closed"
    /\ \A k \in Tasks : task[k] = "done" /\ taskRuns[k] > 0

AntiEntropy == "monitorAntiEntropy"

\* C14: with an anti-entropy interval of 0 the anti-entropy task returns at
\* once: it never waits for a tick and never invokes SyncHolder.
C14_AntiEntropyDisabled ==
    ~intervals[AntiEntropy]
        => /\ task[AntiEntropy] \in {"none", "start", "done"}
           /\ taskRuns[AntiEntropy] = 0

C14_Witness ==
    /\ ~intervals[AntiEntropy]
    /\ task[AntiEntropy] = "done"
    /\ sPc = "opened"
    /\ taskRuns["monitorRuntime"] > 0

C30_OpenOrder ==
    ~closing
        => /\ clusterSt # "new" => translate = "open"
           /\ holder # "new" => clusterSt # "new"
           /\ clusterSt \in {"ready", "listening"} => holder = "open"
           /\ (\E k \in Tasks : task[k] # "none")
                 => clusterSt = "listening" /\ sPc = "opened"
           /\ sPc = "opened"
                 => /\ openErr = None
                    /\ wg + Cardinality({k \in Tasks : task[k] = "done"}) = 3
           /\ sPc = "open_failed"
                 => /\ openErr \in {"translateFile.Open", "opening Cluster",
                                    "opening Holder", "setting nodeState"}
                    /\ \A k \in Tasks : task[k] = "none"
                    /\ wg = 0
                    /\ clusterSt # "listening"
                    /\ openErr = "translateFile.Open"
                          => translate = "new" /\ clusterSt = "new" /\ holder = "new"
                    /\ openErr = "opening Cluster"
                          => translate = "open" /\ clusterSt = "new" /\ holder = "new"
                    /\ openErr = "opening Holder"
                          => clusterSt = "started" /\ holder = "new"
                    /\ openErr = "setting nodeState"
                          => clusterSt = "started" /\ holder = "open"

C30_Witness ==
    /\ ~closing
    /\ sPc = "open_failed"
    /\ openErr = "setting nodeState"
    /\ translate = "open"
    /\ holder = "open"

(***************************************************************************)
(* Command: Start, Wait and Close                                          *)
(***************************************************************************)
CmdOthers == UNCHANGED <<viewVars, sendVars, thrVars, auxVars>>

\* the process has neither exited nor panicked
Alive == exitStatus = NoExit /\ ~panicked

InitCommand ==
    /\ ViewQuiet
    /\ SendQuiet
    /\ ThreadsQuiet
    /\ ServerQuiet
    /\ AuxQuiet
    /\ started = "no"
    /\ wPc = "idle"
    /\ waitVia = None
    /\ waitRet = None
    /\ sigQ = 0
    /\ sigSent = 0
    /\ hardPc = "none"
    /\ exitStatus = NoExit
    /\ done = FALSE
    /\ closePc = [c \in Closers |-> "none"]
    /\ closeRes = [c \in Closers |-> None]
    /\ handlerCl = 0
    /\ handlerErr = [c \in Closers |-> FALSE]
    /\ logErr = [c \in Closers |-> FALSE]
    /\ logCloser \in BOOLEAN
    /\ panicked = FALSE

\* Command.Start: SetupServer, SetupNetworking, Server.Open; on success the
\* server is open and its monitors run
CommandStart ==
    /\ started = "no"
    /\ \E ok \in BOOLEAN :
          IF ok
          THEN /\ started' = "ok"
               /\ sPc' = "opened"
               /\ translate' = "open"
               /\ clusterSt' = "listening"
               /\ holder' = "open"
               /\ wg' = 3
               /\ task' = [k \in Tasks |-> "select"]
               /\ intervals' = [k \in Tasks |-> TRUE]
          ELSE /\ started' = "failed"
               /\ UNCHANGED <<sPc, translate, clusterSt, holder, wg, task, intervals>>
    /\ UNCHANGED <<closing, taskRuns, taskErrs, openErr>>
    /\ UNCHANGED <<wPc, waitVia, waitRet, sigQ, sigSent, hardPc, exitStatus, done,
                   closePc, closeRes, handlerCl, handlerErr, logErr, logCloser, panicked>>
    /\ CmdOthers

\* Wait: signal.Notify(c, os.Interrupt, syscall.SIGTERM), then the select
WaitCall ==
    /\ Alive
    /\ started = "ok"
    /\ wPc = "idle"
    /\ wPc' = "select"
    /\ UNCHANGED <<started, waitVia, waitRet, sigQ, sigSent, hardPc, exitStatus, done,
                   closePc, closeRes, handlerCl, handlerErr, logErr, logCloser, panicked>>
    /\ UNCHANGED srvVars
    /\ CmdOthers

\* an interrupt or terminate signal is delivered: it is queued in c unless c is full
SignalArrives ==
    /\ Alive
    /\ wPc # "idle"
    /\ sigSent < MaxSignals
    /\ sigSent' = sigSent + 1
    /\ sigQ' = IF sigQ < SigBuffer THEN sigQ + 1 ELSE sigQ
    /\ UNCHANGED <<started, wPc, waitVia, waitRet, hardPc, exitStatus, done,
                   closePc, closeRes, handlerCl, handlerErr, logErr, logCloser, panicked>>
    /\ UNCHANGED srvVars
    /\ CmdOthers

\* a Wait that starts the shutdown without the goroutine of the second signal
WaitSignal_nohardexit ==
    /\ Alive
    /\ wPc = "select"
    /\ sigQ > 0
    /\ sigQ' = sigQ - 1
    /\ waitVia' = "signal"
    /\ closePc' = [closePc EXCEPT !["wait"] = "c_handler"]
    /\ wPc' = "closing"
    /\ UNCHANGED <<started, waitRet, sigSent, hardPc, exitStatus, done,
                   closeRes, handlerCl, handlerErr, logErr, logCloser, panicked>>
    /\ UNCHANGED srvVars
    /\ CmdOthers

\* Wait: case sig := <-c: go func() { <-c; os.Exit(1) }(), then m.Close() is entered
WaitSignal ==
    /\ Alive
    /\ wPc = "select"
    /\ sigQ > 0
    /\ sigQ' = sigQ - 1
    /\ waitVia' = "signal"
    /\ hardPc' = "waiting"
    /\ closePc' = [closePc EXCEPT !["wait"] = "c_handler"]
    /\ wPc' = "closing"
    /\ UNCHANGED <<started, waitRet, sigSent, exitStatus, done,
                   closeRes, handlerCl, handlerErr, logErr, logCloser, panicked>>
    /\ UNCHANGED srvVars
    /\ CmdOthers

\* Wait: case <-m.done: return nil
WaitDone ==
    /\ Alive
    /\ wPc = "select"
    /\ done
    /\ waitVia' = "done"
    /\ waitRet' = "nil"
    /\ wPc' = "returned"
    /\ UNCHANGED <<started, sigQ, sigSent, hardPc, exitStatus, done,
                   closePc, closeRes, handlerCl, handlerErr, logErr, logCloser, panicked>>
    /\ UNCHANGED srvVars
    /\ CmdOthers

\* Wait: return errors.Wrap(m.Close(), "closing command"), nil for a nil error
WaitReturn ==
    /\ Alive
    /\ wPc = "closing"
    /\ closePc["wait"] = "ret"
    /\ waitRet' = closeRes["wait"]
    /\ wPc' = "returned"
    /\ UNCHANGED <<started, waitVia, sigQ, sigSent, hardPc, exitStatus, done,
                   closePc, closeRes, handlerCl, handlerErr, logErr, logCloser, panicked>>
    /\ UNCHANGED srvVars
    /\ CmdOthers

\* the goroutine of the second signal: <-c; os.Exit(1)
HardExit ==
    /\ Alive
    /\ hardPc = "waiting"
    /\ sigQ > 0
    /\ sigQ' = sigQ - 1
    /\ hardPc' = "exited"
    /\ exitStatus' = 1
    /\ UNCHANGED <<started, wPc, waitVia, waitRet, sigSent, done,
                   closePc, closeRes, handlerCl, handlerErr, logErr, logCloser, panicked>>
    /\ UNCHANGED srvVars
    /\ CmdOthers

\* Command.Close is called from outside Wait
ExtClose ==
    /\ Alive
    /\ started = "ok"
    /\ closePc["ext"] = "none"
    /\ closePc' = [closePc EXCEPT !["ext"] = "c_handler"]
    /\ UNCHANGED <<started, wPc, waitVia, waitRet, sigQ, sigSent, hardPc, exitStatus,
                   done, closeRes, handlerCl, handlerErr, logErr, logCloser, panicked>>
    /\ UNCHANGED srvVars
    /\ CmdOthers

\* a Close that returns the error of Handler.Close at once
CloseHandler_stoponerr ==
    \E c \in Closers, ok \in BOOLEAN :
        /\ Alive
        /\ closePc[c] = "c_handler"
        /\ handlerCl' = handlerCl + 1
        /\ handlerErr' = [handlerErr EXCEPT ![c] = ~ok]
        /\ closePc' = [closePc EXCEPT ![c] = IF ok THEN "c_server" ELSE "ret"]
        /\ closeRes' = [closeRes EXCEPT ![c] = IF ok THEN @ ELSE "err"]
        /\ UNCHANGED <<started, wPc, waitVia, waitRet, sigQ, sigSent, hardPc,
                       exitStatus, done, logErr, logCloser, panicked>>
        /\ UNCHANGED srvVars
        /\ CmdOthers

\* Close: handlerErr := m.Handler.Close()
CloseHandler ==
    \E c \in Closers, ok \in BOOLEAN :
        /\ Alive
        /\ closePc[c] = "c_handler"
        /\ handlerCl' = handlerCl + 1
        /\ handlerErr' = [handlerErr EXCEPT ![c] = ~ok]
        /\ closePc' = [closePc EXCEPT ![c] = "c_server"]
        /\ UNCHANGED <<started, wPc, waitVia, waitRet, sigQ, sigSent, hardPc,
                       exitStatus, done, closeRes, logErr, logCloser, panicked>>
        /\ UNCHANGED srvVars
        /\ CmdOthers

\* a Close whose Server.Close does nothing on a server that is closed already
CloseServer_idempotent ==
    \E c \in Closers :
        /\ Alive
        /\ closePc[c] = "c_server"
        /\ IF closing
           THEN /\ closePc' = [closePc EXCEPT ![c] = "c_log"]
                /\ UNCHANGED <<srvVars, panicked>>
           ELSE /\ closing' = TRUE
                /\ task' = [k \in Tasks |-> "done"]
                /\ wg' = 0
                /\ clusterSt' = "closed"
                /\ holder' = "closed"
                /\ translate' = "closed"
                /\ sPc' = "closed"
                /\ closePc' = [closePc EXCEPT ![c] = "c_log"]
                /\ UNCHANGED <<taskRuns, taskErrs, intervals, openErr, panicked>>
        /\ UNCHANGED <<started, wPc, waitVia, waitRet, sigQ, sigSent, hardPc,
                       exitStatus, done, closeRes, handlerCl, handlerErr, logErr,
                       logCloser>>
        /\ CmdOthers

\* Close: serveErr := m.Server.Close(): the close channel is closed (a panic
\* when it is closed already), the monitors are joined, then the cluster, the
\* holder and the translate file are closed; the result is nil
CloseServer ==
    \E c \in Closers :
        /\ Alive
        /\ closePc[c] = "c_server"
        /\ IF closing
           THEN /\ panicked' = TRUE
                /\ UNCHANGED <<closePc, srvVars>>
           ELSE /\ closing' = TRUE
                /\ task' = [k \in Tasks |-> "done"]
                /\ wg' = 0
                /\ clusterSt' = "closed"
                /\ holder' = "closed"
                /\ translate' = "closed"
                /\ sPc' = "closed"
                /\ closePc' = [closePc EXCEPT ![c] = "c_log"]
                /\ UNCHANGED <<taskRuns, taskErrs, intervals, openErr, panicked>>
        /\ UNCHANGED <<started, wPc, waitVia, waitRet, sigQ, sigSent, hardPc,
                       exitStatus, done, closeRes, handlerCl, handlerErr, logErr,
                       logCloser>>
        /\ CmdOthers

\* Close: if closer, ok := m.logOutput.(io.Closer); ok { logErr = closer.Close() }
CloseLog ==
    \E c \in Closers, ok \in BOOLEAN :
        /\ Alive
        /\ closePc[c] = "c_log"
        /\ ~logCloser => ok
        /\ logErr' = [logErr EXCEPT ![c] = logCloser /\ ~ok]
        /\ closePc' = [closePc EXCEPT ![c] = "c_done"]
        /\ UNCHANGED <<started, wPc, waitVia, waitRet, sigQ, sigSent, hardPc,
                       exitStatus, done, closeRes, handlerCl, handlerErr, logCloser,
                       panicked>>
        /\ UNCHANGED srvVars
        /\ CmdOthers

\* the result of Close: an error when one of the three closes failed
\* (Server.Close always returns nil)
CloseResult(hErr, sErr, lErr) == IF sErr \/ lErr \/ hErr THEN "err" ELSE "nil"

\* Close: close(m.done) (a panic when it is closed already) and the return
CloseDone ==
    \E c \in Closers :
        /\ Alive
        /\ closePc[c] = "c_done"
        /\ IF done
           THEN /\ panicked' = TRUE
                /\ UNCHANGED <<done, closeRes, closePc>>
           ELSE /\ done' = TRUE
                /\ closeRes' = [closeRes EXCEPT ![c] =
                                   CloseResult(handlerErr[c], FALSE, logErr[c])]
                /\ closePc' = [closePc EXCEPT ![c] = "ret"]
                /\ UNCHANGED panicked
        /\ UNCHANGED <<started, wPc, waitVia, waitRet, sigQ, sigSent, hardPc,
                       exitStatus, handlerCl, handlerErr, logErr, logCloser>>
        /\ UNCHANGED srvVars
        /\ CmdOthers

NextCommand ==
    \/ CommandStart
    \/ WaitCall
    \/ SignalArrives
    \/ WaitSignal
    \/ WaitDone
    \/ WaitReturn
    \/ HardExit
    \/ ExtClose
    \/ CloseHandler
    \/ CloseServer
    \/ CloseLog
    \/ CloseDone

SpecCommand == InitCommand /\ [][NextCommand]_vars

\* the graceful shutdown started by the first signal has not ended
ShuttingDown == wPc = "closing" /\ closePc["wait"] # "ret"

\* C10: the first signal makes Wait enter Close, and when Wait returns on that
\* path the handler and the server are closed, done is closed and the result
\* is the result of Close; while the shutdown runs, a second signal in the
\* channel lets the process exit, and an exit has status 1 and follows two
\* signals; Wait on a closed done with no signal can only return, and
\* returns nil.
C10_WaitSignals ==
    /\ wPc = "closing" => closePc["wait"] # "none" /\ waitVia = "signal"
    /\ (wPc = "returned" /\ waitVia = "signal")
          => /\ handlerCl >= 1
             /\ closing /\ holder = "closed"
             /\ done
             /\ waitRet = closeRes["wait"]
             /\ waitRet = (IF handlerErr["wait"] \/ logErr["wait"] THEN "err" ELSE "nil")
    /\ (Alive /\ ShuttingDown /\ sigQ > 0) => ENABLED HardExit
    /\ exitStatus # NoExit
          => /\ exitStatus = 1
             /\ sigSent >= 2
             /\ waitVia = "signal"
    /\ (Alive /\ wPc = "select" /\ done /\ sigQ = 0)
          => ENABLED WaitDone /\ ~ENABLED WaitSignal
    /\ (wPc = "returned" /\ waitVia = "done") => done /\ waitRet = "nil"
    /\ (wPc = "returned" /\ sigSent = 0) => waitVia = "done" /\ waitRet = "nil"

C10_Witness ==
    /\ exitStatus = 1
    /\ wPc = "closing"
    /\ closePc["wait"] \in {"c_server", "c_log", "c_done"}
    /\ sigSent = 2

\* the statements of Command.Close in their order
CloseSteps ==
    {<<"none", "c_handler">>, <<"c_handler", "c_server">>, <<"c_server", "c_log">>,
     <<"c_log", "c_done">>, <<"c_done", "ret">>}

\* C33: Command.Close takes all its steps in order whatever the earlier ones
\* returned: Handler.Close, Server.Close, the close of the log output when it
\* is a closer, close(done); its result is an error exactly when one of the
\* three closes failed; done is closed whenever it returns, and a Wait blocked
\* in its select can then return.
C33_CloseTakesAllSteps ==
    /\ [](\A c \in Closers :
             /\ closePc[c] \in {"c_server", "c_log", "c_done", "ret"} => handlerCl >= 1
             /\ closePc[c] \in {"c_log", "c_done", "ret"}
                   => closing /\ sPc = "closed" /\ holder = "closed"
             /\ logErr[c] => logCloser /\ closePc[c] \in {"c_done", "ret"}
             /\ closePc[c] = "ret"
                   => /\ done
                      /\ closeRes[c] = "err" <=> (handlerErr[c] \/ logErr[c])
                      /\ closeRes[c] = "nil" <=> ~(handlerErr[c] \/ logErr[c])
             /\ closePc[c] # "ret" => closeRes[c] = None)
    /\ []((Alive /\ wPc = "select" /\ done) => ENABLED WaitDone)
    /\ [][\A c \in Closers :
             closePc'[c] # closePc[c] => <<closePc[c], closePc'[c]>> \in CloseSteps]_vars

\* an external Close whose Handler.Close and log close both failed went on to
\* close the server and done and returned an error; Wait returned nil on done
C33_Witness ==
    /\ closePc["ext"] = "ret"
    /\ handlerErr["ext"] /\ logErr["ext"]
    /\ closeRes["ext"] = "err"
    /\ sPc = "closed"
    /\ done
    /\ wPc = "returned" /\ waitVia = "done" /\ waitRet = "nil"
    /\ ~panicked

\* the invocation of Close has got past m.Server.Close()
PastServerClose(c) == closePc[c] \in {"c_log", "c_done", "ret"}

\* C34: Server.Close and Command.Close are single-shot. Of two invocations of
\* Command.Close (an external one racing with the signal path of Wait) at most
\* one gets past Server.Close and returns; the other, once the close channel
\* is closed, can only end the process by closing it again. The process ends
\* that way only when Close was invoked twice, on the close of a channel (the
\* close channel of the server or done) that is closed already.
C34_CloseSingleShot ==
    /\ [](\A c, d \in Closers : c # d => ~(PastServerClose(c) /\ PastServerClose(d)))
    /\ [](panicked => \A c \in Closers : closePc[c] # "none")
    /\ [][\A c \in Closers :
             (closePc[c] = "c_server" /\ closing)
                 => closePc'[c] = "c_server" /\ closeRes'[c] = None]_vars
    /\ [][(panicked' /\ ~panicked)
             => \E c \in Closers :
                   \/ closePc[c] = "c_server" /\ closing
                   \/ closePc[c] = "c_done" /\ done]_vars

\* the Close of Wait's signal path has returned; the external Close reached
\* Server.Close after it and the process ended on close(s.closing)
C34_Witness ==
    /\ panicked
    /\ closePc["wait"] = "ret"
    /\ closePc["ext"] = "c_server"
    /\ closing /\ done
    /\ closeRes["ext"] = None

(***************************************************************************)
(* Holder, indexes and the messages of the peers                           *)
(***************************************************************************)
\* the indexes a data directory holds at start-up and peers report shards of
DiskIndexes == {"i"}

ClusterStates == {"STARTING", "NORMAL", "RESIZING", "DEGRADED"}

ClusterStateNormal == "NORMAL"

MessageTypes == {"CreateShardMessage", "CreateIndexMessage", "DeleteIndexMessage",
                 "CreateFieldMessage", "DeleteFieldMessage", "CreateViewMessage",
                 "DeleteViewMessage", "ClusterStatus"}

\* the messages a peer can send: CreateShard carries a shard, ClusterStatus a
\* cluster state (in the field "view")
ProtoMessages ==
    {[type |-> t, index |-> i, field |-> f, view |-> v, shard |-> sh] :
        t \in MessageTypes \ {"ClusterStatus", "CreateShardMessage"},
        i \in IndexNames, f \in FieldNames, v \in ViewNames, sh \in {0}}
    \cup {[type |-> "CreateShardMessage", index |-> i, field |-> "none",
           view |-> "none", shard |-> sh] : i \in IndexNames, sh \in RemoteShards}
    \cup {[type |-> "ClusterStatus", index |-> "none", field |-> "none",
           view |-> cs, shard |-> 0] : cs \in ClusterStates}

\* the holder as ReceiveMessage sees it
HolderRec == [indexes |-> hIndexes, fields |-> hFields, views |-> hViews,
              remoteMax |-> remoteMax, cstate |-> clusterState]

MaxOf(a, b) == IF a > b THEN a ELSE b

\* Index.SetRemoteMaxShard: records the highest shard a peer has reported
SetRemoteMaxShard(cur, shard) == MaxOf(cur, shard)

\* Holder.maxShards: per index, the maximum of its own and the remote max shard
HolderMaxShards(idxs, lm, rm) == [i \in idxs |-> MaxOf(lm[i], rm[i])]

\* Holder.CreateIndex: a new index, without fields and with remote max shard 0
HolderCreateIndex(h, index, ok) ==
    IF index \in h.indexes THEN [h |-> h, err |-> "ErrIndexExists"]
    ELSE IF ~ok THEN [h |-> h, err |-> "io"]
    ELSE [h |-> [h EXCEPT !.indexes = @ \cup {index},
                          !.remoteMax = [@ EXCEPT ![index] = 0]],
          err |-> None]

\* Holder.DeleteIndex: the index goes with its fields and views
HolderDeleteIndex(h, index, ok) ==
    IF index \notin h.indexes THEN [h |-> h, err |-> "ErrIndexNotFound"]
    ELSE IF ~ok THEN [h |-> h, err |-> "io"]
    ELSE [h |-> [h EXCEPT !.indexes = @ \ {index},
                          !.fields = {x \in @ : x[1] # index},
                          !.views = {x \in @ : x[1] # index},
                          !.remoteMax = [@ EXCEPT ![index] = 0]],
          err |-> None]

\* Index.CreateField
IndexCreateField(h, index, field, ok) ==
    IF <<index, field>> \in h.fields THEN [h |-> h, err |-> "ErrFieldExists"]
    ELSE IF ~ok THEN [h |-> h, err |-> "io"]
    ELSE [h |-> [h EXCEPT !.fields = @ \cup {<<index, field>>}], err |-> None]

\* Index.DeleteField
IndexDeleteField(h, index, field, ok) ==
    IF <<index, field>> \notin h.fields THEN [h |-> h, err |-> "ErrFieldNotFound"]
    ELSE IF ~ok THEN [h |-> h, err |-> "io"]
    ELSE [h |-> [h EXCEPT !.fields = @ \ {<<index, field>>},
                          !.views = {x \in @ : <<x[1], x[2]>> # <<index, field>>}],
          err |-> None]

\* Field.createViewIfNotExistsBase
FieldCreateView(h, index, field, view, ok) ==
    IF <<index, field, view>> \in h.views THEN [h |-> h, err |-> None]
    ELSE IF ~ok THEN [h |-> h, err |-> "io"]
    ELSE [h |-> [h EXCEPT !.views = @ \cup {<<index, field, view>>}], err |-> None]

\* Field.deleteView
FieldDeleteView(h, index, field, view, ok) ==
    IF <<index, field, view>> \notin h.views THEN [h |-> h, err |-> "ErrInvalidView"]
    ELSE IF ~ok THEN [h |-> h, err |-> "io"]
    ELSE [h |-> [h EXCEPT !.views = @ \ {<<index, field, view>>}], err |-> None]

\* Server.ReceiveMessage: the new holder, the error returned and whether the
\* call ended the process by a nil pointer dereference
ReceiveMessage(h, pb, ok) ==
    LET ret(r) == [h |-> r.h, err |-> r.err, panic |-> FALSE]
        fail(e) == [h |-> h, err |-> e, panic |-> FALSE]
    IN CASE pb.type = "CreateShardMessage" ->
              IF pb.index \notin h.indexes
              THEN fail("Local Index not found")
              ELSE [h |-> [h EXCEPT !.remoteMax[pb.index] =
                                       SetRemoteMaxShard(@, pb.shard)],
                    err |-> None, panic |-> FALSE]
         [] pb.type = "CreateIndexMessage" -> ret(HolderCreateIndex(h, pb.index, ok))
         [] pb.type = "DeleteIndexMessage" -> ret(HolderDeleteIndex(h, pb.index, ok))
         [] pb.type = "CreateFieldMessage" ->
              IF pb.index \notin h.indexes
              THEN fail("Local Index not found")
              ELSE ret(IndexCreateField(h, pb.index, pb.field, ok))
         [] pb.type = "DeleteFieldMessage" ->
              \* idx is used without a nil check
              IF pb.index \notin h.indexes
              THEN [h |-> h, err |-> None, panic |-> TRUE]
              ELSE ret(IndexDeleteField(h, pb.index, pb.field, ok))
         [] pb.type = "CreateViewMessage" ->
              IF <<pb.index, pb.field>> \notin h.fields
              THEN fail("Local Field not found")
              ELSE ret(FieldCreateView(h, pb.index, pb.field, pb.view, ok))
         [] pb.type = "DeleteViewMessage" ->
              IF <<pb.index, pb.field>> \notin h.fields
              THEN fail("Local Field not found")
              ELSE ret(FieldDeleteView(h, pb.index, pb.field, pb.view, ok))
         [] pb.type = "ClusterStatus" ->
              IF ok THEN [h |-> [h EXCEPT !.cstate = pb.view], err |-> None,
                          panic |-> FALSE]
              ELSE fail("merge cluster status")

\* the NodeStatus messages a node can receive: the schema of the sender names
\* the indexes whose max shards it reports
NodeStatuses ==
    UNION {{[node |-> n, schema |-> D, maxShards |-> ms] :
               n \in {"self", "peer"}, ms \in [D -> RemoteShards]} :
           D \in SUBSET DiskIndexes}

\* Holder.applySchema: creates the indexes of the schema that are missing
applySchema(h, schema, ok) ==
    IF ~ok THEN [h |-> h, err |-> "applying schema"]
    ELSE [h |-> [h EXCEPT !.indexes = @ \cup schema], err |-> None]

\* Server.mergeRemoteStatus
mergeRemoteStatus(h, lm, ns, schemaOk) ==
    IF ns.node = "self"
    THEN [h |-> h, err |-> None]
    ELSE LET a == applySchema(h, ns.schema, schemaOk)
         IN IF a.err # None
            THEN [h |-> h, err |-> a.err]
            ELSE LET oldmaxshards == HolderMaxShards(a.h.indexes, lm, a.h.remoteMax)
                     merged == [i \in IndexNames |->
                                   IF /\ i \in DOMAIN ns.maxShards
                                      /\ i \in a.h.indexes
                                      /\ ns.maxShards[i] > oldmaxshards[i]
                                   THEN SetRemoteMaxShard(a.h.remoteMax[i],
                                                          ns.maxShards[i])
                                   ELSE a.h.remoteMax[i]]
                 IN [h |-> [a.h EXCEPT !.remoteMax = merged], err |-> None]

InitHolder ==
    /\ ViewQuiet
    /\ SendQuiet
    /\ ThreadsQuiet
    /\ ServerQuiet
    /\ CommandQuiet
    /\ HolderQuiet
    /\ AggQuiet
    /\ CacheQuiet
    /\ SetupQuiet
    /\ MoreQuiet

\* the variables of the node outside the views, the holder and the set-up
CoreVars == <<viewVars, sendVars, thrVars, srvVars, cmdVars>>

CoreQuiet ==
    /\ ViewQuiet
    /\ SendQuiet
    /\ ThreadsQuiet
    /\ ServerQuiet
    /\ CommandQuiet

HolderOthers == UNCHANGED <<CoreVars, aggVars, cacheVars, setupVars, moreVars>>

\* Holder.Open begins: the data directory is scanned
HolderOpenBegin ==
    /\ ~hPanic
    /\ hState = "new"
    /\ hState' = "opening"
    /\ UNCHANGED <<opened, clusterState, hIndexes, hFields, hViews, localMax,
                   remoteMax, reported, status, hLast, hOps>>
    /\ UNCHANGED hPanic
    /\ HolderOthers

\* Holder.Open ends: the indexes found on disk are in the holder with their
\* fields, views and fragments, and the opened event fires; or Open fails
HolderOpenEnd ==
    /\ ~hPanic
    /\ hState = "opening"
    /\ \E ok \in BOOLEAN, idxs \in SUBSET DiskIndexes, withFields \in BOOLEAN :
          \E lm \in [idxs -> RemoteShards] :
              IF ok
              THEN /\ idxs = {} => ~withFields
                   /\ hState' = "open"
                   /\ opened' = TRUE
                   /\ hIndexes' = hIndexes \cup idxs
                   /\ hFields' = hFields \cup
                         (IF withFields THEN idxs \X FieldNames ELSE {})
                   /\ hViews' = hViews \cup
                         (IF withFields THEN idxs \X FieldNames \X ViewNames ELSE {})
                   /\ localMax' = [i \in IndexNames |->
                                      IF i \in idxs THEN lm[i] ELSE localMax[i]]
              ELSE /\ idxs = {}
                   /\ ~withFields
                   /\ hState' = "failed"
                   /\ UNCHANGED <<opened, hIndexes, hFields, hViews, localMax>>
    /\ UNCHANGED <<clusterState, remoteMax, reported, status, hLast, hOps, hPanic>>
    /\ HolderOthers

\* the message names an index or a field the holder does not have
NamesMissing(h, pb) ==
    \/ /\ pb.type \in {"CreateShardMessage", "CreateFieldMessage", "DeleteFieldMessage"}
       /\ pb.index \notin h.indexes
    \/ /\ pb.type \in {"DeleteFieldMessage", "CreateViewMessage", "DeleteViewMessage"}
       /\ <<pb.index, pb.field>> \notin h.fields

\* one of the messages msgs is handed to Server.ReceiveMessage
Receive(msgs) ==
    /\ ~hPanic
    /\ hOps < MaxHolderOps
    /\ \E pb \in msgs, ok \in BOOLEAN :
          LET r == ReceiveMessage(HolderRec, pb, ok)
          IN /\ hPanic' = r.panic
             /\ hIndexes' = r.h.indexes
             /\ hFields' = r.h.fields
             /\ hViews' = r.h.views
             /\ remoteMax' = r.h.remoteMax
             /\ clusterState' = r.h.cstate
             /\ localMax' = [i \in IndexNames |->
                                IF i \in hIndexes /\ i \in r.h.indexes
                                THEN localMax[i] ELSE 0]
             /\ reported' = [i \in IndexNames |->
                                IF i \notin hIndexes \/ i \notin r.h.indexes THEN {}
                                ELSE IF pb.type = "CreateShardMessage" /\ pb.index = i
                                THEN reported[i] \cup {pb.shard}
                                ELSE reported[i]]
             /\ hLast' = [type |-> pb.type, err |-> r.err,
                          missing |-> NamesMissing(HolderRec, pb),
                          changed |-> r.h # HolderRec]
    /\ hOps' = hOps + 1
    /\ UNCHANGED <<hState, opened, status>>
    /\ HolderOthers

\* a peer's message is handed to Server.ReceiveMessage
ReceiveMessageCall == Receive(ProtoMessages)

\* a message of the coordinator about the cluster, or a peer's CreateShard
\* message, is handed to Server.ReceiveMessage
ReceiveClusterMessage ==
    Receive({pb \in ProtoMessages : pb.type \in {"ClusterStatus", "CreateShardMessage"}})

\* Server.HandleRemoteStatus: the status is dropped unless the cluster is
\* NORMAL; otherwise a goroutine is started for it
HandleRemoteStatus ==
    /\ ~hPanic
    /\ \E n \in StatusIds, ns \in NodeStatuses :
          /\ status[n].st = "unsent"
          /\ \A k \in StatusIds : k < n => status[k].st # "unsent"
          /\ status' = [status EXCEPT ![n] =
                           [@ EXCEPT !.st = IF clusterState # ClusterStateNormal
                                            THEN "dropped" ELSE "waiting",
                                     !.atState = clusterState,
                                     !.body = ns]]
    /\ UNCHANGED <<hState, opened, clusterState, hIndexes, hFields, hViews, localMax,
                   remoteMax, reported, hLast, hOps, hPanic>>
    /\ HolderOthers

\* a goroutine of HandleRemoteStatus that merges without awaiting the holder
MergeGoroutine_nowait ==
    /\ ~hPanic
    /\ \E n \in StatusIds, schemaOk \in BOOLEAN :
          /\ status[n].st = "waiting"
          /\ LET ns == status[n].body
                 r == mergeRemoteStatus(HolderRec, localMax, ns, schemaOk)
             IN /\ hIndexes' = r.h.indexes
                /\ remoteMax' = r.h.remoteMax
                /\ reported' = [i \in IndexNames |->
                                   IF /\ ns.node = "peer"
                                      /\ r.err = None
                                      /\ i \in DOMAIN ns.maxShards
                                      /\ i \in r.h.indexes
                                   THEN reported[i] \cup {ns.maxShards[i]}
                                   ELSE reported[i]]
                /\ status' = [status EXCEPT ![n] =
                                 [@ EXCEPT !.st = "applied", !.hAt = hState,
                                           !.err = r.err, !.body = NoBody]]
    /\ UNCHANGED <<hState, opened, clusterState, hFields, hViews, localMax, hLast,
                   hOps, hPanic>>
    /\ HolderOthers

\* the goroutine of HandleRemoteStatus: <-s.holder.opened, then mergeRemoteStatus
\* (its error is logged)
MergeGoroutine ==
    /\ ~hPanic
    /\ opened
    /\ \E n \in StatusIds, schemaOk \in BOOLEAN :
          /\ status[n].st = "waiting"
          /\ LET ns == status[n].body
                 r == mergeRemoteStatus(HolderRec, localMax, ns, schemaOk)
             IN /\ hIndexes' = r.h.indexes
                /\ remoteMax' = r.h.remoteMax
                /\ reported' = [i \in IndexNames |->
                                   IF /\ ns.node = "peer"
                                      /\ r.err = None
                                      /\ i \in DOMAIN ns.maxShards
                                      /\ i \in r.h.indexes
                                   THEN reported[i] \cup {ns.maxShards[i]}
                                   ELSE reported[i]]
                /\ status' = [status EXCEPT ![n] =
                                 [@ EXCEPT !.st = "applied", !.hAt = hState,
                                           !.err = r.err, !.body = NoBody]]
    /\ UNCHANGED <<hState, opened, clusterState, hFields, hViews, localMax, hLast,
                   hOps, hPanic>>
    /\ HolderOthers

NextHolder ==
    \/ HolderOpenBegin
    \/ HolderOpenEnd
    \/ ReceiveMessageCall

SpecHolder == InitHolder /\ [][NextHolder]_vars

InitStatus == InitHolder

NextStatus ==
    \/ HolderOpenBegin
    \/ HolderOpenEnd
    \/ ReceiveClusterMessage
    \/ HandleRemoteStatus
    \/ MergeGoroutine

SpecStatus == InitStatus /\ [][NextStatus]_vars

\* the highest of a set of shards, 0 for none
HighestOf(S) == IF S = {} THEN 0 ELSE CHOOSE x \in S : \A y \in S : y <= x

\* C11: for each index the recorded remote max shard equals the maximum of
\* all shards the peers have reported for it (by CreateShard messages and by
\* merged NodeStatus messages), so it never decreases.
C11_RemoteMaxIsHighestReported ==
    \A i \in hIndexes : remoteMax[i] = HighestOf(reported[i])

\* C12: a NodeStatus handed to HandleRemoteStatus is dropped exactly when the
\* cluster is not NORMAL at receipt; one that is not dropped is applied only
\* after the opened event of the holder has fired, that is to a holder that
\* has finished opening.
C12_StatusAwaitsOpenedHolder ==
    /\ \A n \in StatusIds :
          /\ status[n].st = "dropped" => status[n].atState # ClusterStateNormal
          /\ status[n].st \in {"waiting", "applied"}
                => status[n].atState = ClusterStateNormal
          /\ status[n].st = "applied" => status[n].hAt = "open" /\ opened
    /\ opened => hState = "open"

C12_Witness ==
    \E n \in StatusIds :
        /\ status[n].st = "applied"
        /\ status[n].hAt = "open"
        /\ status[n].err = None

\* C31: a remote NodeStatus is applied to the holder only while the cluster
\* state is NORMAL: a status accepted in NORMAL whose goroutine is still
\* waiting for the opened event is not merged once the cluster has left
\* NORMAL.
C31_MergeOnlyWhileNormal ==
    [][\A n \in StatusIds :
          (status[n].st = "waiting" /\ status'[n].st = "applied")
              => clusterState = ClusterStateNormal]_vars

\* the same for the merges that change the holder (a peer's status whose
\* schema or max shards are new to it)
C31_HolderChangedOnlyWhileNormal ==
    [][(\E n \in StatusIds :
            /\ status[n].st = "waiting"
            /\ status'[n].st = "applied"
            /\ <<hIndexes', remoteMax'>> # <<hIndexes, remoteMax>>)
          => clusterState = ClusterStateNormal]_vars

\* the messages that name an index or a field
SchemaMessageTypes == {"CreateShardMessage", "CreateFieldMessage", "DeleteFieldMessage",
                       "CreateViewMessage", "DeleteViewMessage"}

\* C19: ReceiveMessage for a CreateShard, CreateField, DeleteField, CreateView
\* or DeleteView message naming an index or a field the holder does not have
\* returns an error and leaves the holder unchanged, and the node keeps running.
C19_MissingTargetIsAnError ==
    (hLast.type \in SchemaMessageTypes /\ hLast.missing)
        => /\ ~hPanic
           /\ hLast.err # None
           /\ ~hLast.changed

(***************************************************************************)
(* View.min and View.max                                                   *)
(***************************************************************************)
\* fragment.min / fragment.max: the extreme value of the columns of the filter
\* and their number; 0 and 0 when the filter selects no column
FragResults ==
    {[val |-> 0, count |-> 0]}
    \cup {[val |-> v, count |-> c] : v \in 0..MaxVal, c \in 1..MaxCount}

\* what the fragments of a view return, in the order of allFragments()
FragResultLists == UNION {[1..n -> FragResults] : n \in 0..MaxFrags}

\* the loop of View.min from fragment k on; errAt: the fragment whose min fails
RECURSIVE minLoop(_, _, _, _, _, _)
minLoop(frs, k, errAt, min, count, minHasValue) ==
    IF k > Len(frs) THEN [val |-> min, count |-> count, err |-> FALSE]
    ELSE IF k = errAt THEN [val |-> min, count |-> count, err |-> TRUE]
    ELSE IF frs[k].count = 0 THEN minLoop(frs, k + 1, errAt, min, count, minHasValue)
    ELSE IF ~minHasValue
    THEN minLoop(frs, k + 1, errAt, frs[k].val, count + frs[k].count, TRUE)
    ELSE IF frs[k].val < min
    THEN minLoop(frs, k + 1, errAt, frs[k].val, count + frs[k].count, TRUE)
    ELSE minLoop(frs, k + 1, errAt, min, count, minHasValue)

\* View.min
min(frs, errAt) == minLoop(frs, 1, errAt, 0, 0, FALSE)

\* the loop of View.max from fragment k on
RECURSIVE maxLoop(_, _, _, _, _)
maxLoop(frs, k, errAt, max, count) ==
    IF k > Len(frs) THEN [val |-> max, count |-> count, err |-> FALSE]
    ELSE IF k = errAt THEN [val |-> max, count |-> count, err |-> TRUE]
    ELSE IF frs[k].count > 0 /\ frs[k].val > max
    THEN maxLoop(frs, k + 1, errAt, frs[k].val, count + frs[k].count)
    ELSE maxLoop(frs, k + 1, errAt, max, count)

\* View.max
max(frs, errAt) == maxLoop(frs, 1, errAt, 0, 0)

InitMinMax ==
    /\ CoreQuiet
    /\ HolderQuiet
    /\ CacheQuiet
    /\ SetupQuiet
    /\ MoreQuiet
    /\ aFrags \in FragResultLists
    /\ aOp = "none"
    /\ aRes = NoResult

MinMaxOthers == UNCHANGED <<CoreVars, holderVars, cacheVars, setupVars, moreVars>>

\* View.min is called; one of the fragments may fail
ViewMin ==
    /\ \E errAt \in 0..Len(aFrags) :
          /\ aOp' = "min"
          /\ aRes' = min(aFrags, errAt)
    /\ UNCHANGED aFrags
    /\ MinMaxOthers

\* View.max is called; one of the fragments may fail
ViewMax ==
    /\ \E errAt \in 0..Len(aFrags) :
          /\ aOp' = "max"
          /\ aRes' = max(aFrags, errAt)
    /\ UNCHANGED aFrags
    /\ MinMaxOthers

NextMinMax ==
    \/ ViewMin
    \/ ViewMax

SpecMinMax == InitMinMax /\ [][NextMinMax]_vars

\* the values of the fragments that count at least one column
Counted(frs) == {frs[k].val : k \in {j \in 1..Len(frs) : frs[j].count > 0}}

LowestOf(S) == IF S = {} THEN 0 ELSE CHOOSE x \in S : \A y \in S : x <= y

\* C13: min (max) returns the lowest (highest) of the values of the fragments
\* that report count > 0, and count 0 exactly when every fragment reports
\* count 0, also when the extreme value is 0.
C13_MinMaxReduceFragments ==
    /\ (aOp = "min" /\ ~aRes.err)
          => /\ aRes.val = LowestOf(Counted(aFrags))
             /\ (aRes.count = 0) <=> (Counted(aFrags) = {})
    /\ (aOp = "max" /\ ~aRes.err)
          => /\ aRes.val = HighestOf(Counted(aFrags))
             /\ (aRes.count = 0) <=> (Counted(aFrags) = {})

\* the fragments of frs visited in the order p
Reordered(frs, p) == [k \in 1..Len(frs) |-> frs[p[k]]]

\* C27: when no fragment fails, the (value, count) pair min and max return
\* is the same for every order in which the fragments are visited.
C27_MinMaxOrderIndependent ==
    (aOp \in {"min", "max"} /\ ~aRes.err)
        => \A p \in Permutations(1..Len(aFrags)) :
              LET r == IF aOp = "min" THEN min(Reordered(aFrags, p), 0)
                                      ELSE max(Reordered(aFrags, p), 0)
              IN r.val = aRes.val /\ r.count = aRes.count

\* C27, the value alone: the value returned does not depend on the order.
C27_ValueOrderIndependent ==
    (aOp \in {"min", "max"} /\ ~aRes.err)
        => \A p \in Permutations(1..Len(aFrags)) :
              LET r == IF aOp = "min" THEN min(Reordered(aFrags, p), 0)
                                      ELSE max(Reordered(aFrags, p), 0)
              IN r.val = aRes.val

(***************************************************************************)
(* The cache type of a view and of its fragments                           *)
(***************************************************************************)
\* the prefix of the names of the views of integer (BSI) fields: "bsig_"
viewBSIGroupPrefix == <<"b", "s", "i", "g", "_">>

\* view names, letter by letter: "std", "bsig_f", "bsig", "xbsig_"
ViewNameSet == {<<"s", "t", "d">>,
                <<"b", "s", "i", "g", "_", "f">>,
                <<"b", "s", "i", "g">>,
                <<"x", "b", "s", "i", "g", "_">>}

\* strings.HasPrefix
HasPrefix(str, prefix) ==
    /\ Len(str) >= Len(prefix)
    /\ SubSeq(str, 1, Len(prefix)) = prefix

\* a View.open that keeps the cache type of the field for every view
openCacheType_keep(name, cacheType) == cacheType

\* View.open: the cache type of the view after the first statement of open
openCacheType(name, cacheType) ==
    IF HasPrefix(name, viewBSIGroupPrefix) THEN CacheTypeNone ELSE cacheType

InitCache ==
    /\ CoreQuiet
    /\ HolderQuiet
    /\ AggQuiet
    /\ SetupQuiet
    /\ MoreQuiet
    /\ cName \in ViewNameSet
    /\ cFieldType \in CacheTypes
    /\ cCacheType = cFieldType
    /\ cState = "new"
    /\ cDisk \in SUBSET Shards
    /\ cFrags = EmptyMap

CacheOthers == UNCHANGED <<CoreVars, holderVars, aggVars, setupVars, moreVars>>

\* View.open: the cache type is settled, then every fragment file of the
\* directory gets a fragment made by View.newFragment (frag.CacheType =
\* v.cacheType); when a fragment fails to open, those opened before it may
\* stay in the mapping
CacheViewOpen ==
    /\ cState = "new"
    /\ cCacheType' = openCacheType(cName, cCacheType)
    /\ \E ok \in BOOLEAN, kept \in SUBSET cDisk :
          /\ ok => kept = cDisk
          /\ ~ok => kept # cDisk
          /\ cFrags' = [s \in kept |-> cCacheType']
          /\ cState' = IF ok THEN "open" ELSE "failed"
    /\ UNCHANGED <<cName, cFieldType, cDisk>>
    /\ CacheOthers

\* View.createFragmentIfNotExists: a fragment made by View.newFragment
CacheCreateFragment ==
    /\ cState = "open"
    /\ \E shard \in Shards, ok \in BOOLEAN :
          /\ shard \notin DOMAIN cFrags
          /\ IF ok
             THEN /\ cFrags' = MapPut(cFrags, shard, cCacheType)
                  /\ cDisk' = cDisk \cup {shard}
             ELSE UNCHANGED <<cFrags, cDisk>>
    /\ UNCHANGED <<cName, cFieldType, cCacheType, cState>>
    /\ CacheOthers

\* View.deleteFragment
CacheDeleteFragment ==
    /\ cState = "open"
    /\ \E shard \in DOMAIN cFrags :
          /\ cFrags' = MapDelete(cFrags, shard)
          /\ cDisk' = cDisk \ {shard}
    /\ UNCHANGED <<cName, cFieldType, cCacheType, cState>>
    /\ CacheOthers

\* View.close
CacheViewClose ==
    /\ cState = "open"
    /\ cState' = "closed"
    /\ cFrags' = EmptyMap
    /\ UNCHANGED <<cName, cFieldType, cCacheType, cDisk>>
    /\ CacheOthers

NextCache ==
    \/ CacheViewOpen
    \/ CacheCreateFragment
    \/ CacheDeleteFragment
    \/ CacheViewClose

SpecCache == InitCache /\ [][NextCache]_vars

\* the name begins with the letters b, s, i, g and an underscore
NamedBsig(name) ==
    /\ Len(name) >= 5
    /\ name[1] = "b" /\ name[2] = "s" /\ name[3] = "i" /\ name[4] = "g"
    /\ name[5] = "_"

\* C18: once a view is opened, each of its fragments has cache type none when
\* the name of the view starts with bsig_, whatever the cache type of the
\* field, and the cache type of the field otherwise.
C18_BsigViewsHaveNoCache ==
    cState = "open"
        => \A s \in DOMAIN cFrags :
              cFrags[s] = (IF NamedBsig(cName) THEN "none" ELSE cFieldType)

C18_Witness ==
    /\ cState = "open"
    /\ NamedBsig(cName)
    /\ cFieldType = "ranked"
    /\ DOMAIN cFrags = Shards

\* ---------------------------------------------------------------------------
\* Command.SetupServer: from configuration to listener, Server, API, Handler
\* ---------------------------------------------------------------------------

\* Config.Bind as AddressWithDefaults reads its scheme, Config.TLS.CertificatePath
\* and Config.TLS.CertificateKeyPath
Configs ==
    [scheme : {"http", "https"}, cert : {"", "cert.pem"}, key : {"", "key.pem"}]

\* the TLS block with the test of the key path left out
TLSCheck_certonly(scheme, cert, key) ==
    IF scheme = "https" /\ cert = ""
    THEN "certificate path is required for TLS sockets"
    ELSE None

\* the tests at the head of the TLS block: the error SetupServer returns, or
\* None when it goes on
TLSCheck(scheme, cert, key) ==
    IF scheme = "https"
    THEN IF cert = ""
         THEN "certificate path is required for TLS sockets"
         ELSE IF key = ""
              THEN "certificate key path is required for TLS sockets"
              ELSE None
    ELSE None

InitSetup ==
    /\ CoreQuiet
    /\ HolderQuiet
    /\ AggQuiet
    /\ CacheQuiet
    /\ MoreQuiet
    /\ suPc = "idle"
    /\ cfg \in Configs
    /\ suErr = None
    /\ suLogger = FALSE
    /\ suTLS = FALSE
    /\ suLn = FALSE
    /\ suServer = FALSE
    /\ suAPI = FALSE
    /\ suHandler = FALSE

SetupOthers == UNCHANGED <<CoreVars, holderVars, aggVars, cacheVars, moreVars>>

\* return errors.Wrap(err, msg) / errors.New(msg)
SetupReturn(msg) ==
    /\ suPc' = "done"
    /\ suErr' = msg

SetupServerCall ==
    /\ suPc = "idle"
    /\ suPc' = "logger"
    /\ UNCHANGED <<cfg, suErr, suLogger, suTLS, suLn, suServer, suAPI, suHandler>>
    /\ SetupOthers

SetupLogger ==
    /\ suPc = "logger"
    /\ \E ok \in BOOLEAN :
          IF ok
          THEN /\ suLogger' = TRUE
               /\ suPc' = "address"
               /\ UNCHANGED suErr
          ELSE /\ SetupReturn("setting up logger")
               /\ UNCHANGED suLogger
    /\ UNCHANGED <<cfg, suTLS, suLn, suServer, suAPI, suHandler>>
    /\ SetupOthers

SetupAddress ==
    /\ suPc = "address"
    /\ \E ok \in BOOLEAN :
          IF ok
          THEN /\ suPc' = "tls"
               /\ UNCHANGED suErr
          ELSE SetupReturn("processing bind address")
    /\ UNCHANGED <<cfg, suLogger, suTLS, suLn, suServer, suAPI, suHandler>>
    /\ SetupOthers

SetupTLS ==
    /\ suPc = "tls"
    /\ LET e == TLSCheck(cfg.scheme, cfg.cert, cfg.key) IN
          IF e # None
          THEN SetupReturn(e)
          ELSE /\ suPc' = (IF cfg.scheme = "https" THEN "load" ELSE "stats")
               /\ UNCHANGED suErr
    /\ UNCHANGED <<cfg, suLogger, suTLS, suLn, suServer, suAPI, suHandler>>
    /\ SetupOthers

SetupLoadKeyPair ==
    /\ suPc = "load"
    /\ \E ok \in BOOLEAN :
          IF ok
          THEN /\ suTLS' = TRUE
               /\ suPc' = "stats"
               /\ UNCHANGED suErr
          ELSE /\ SetupReturn("load x509 key pair")
               /\ UNCHANGED suTLS
    /\ UNCHANGED <<cfg, suLogger, suLn, suServer, suAPI, suHandler>>
    /\ SetupOthers

SetupStatsClient ==
    /\ suPc = "stats"
    /\ \E ok \in BOOLEAN :
          IF ok
          THEN /\ suPc' = "listen"
               /\ UNCHANGED suErr
          ELSE SetupReturn("new stats client")
    /\ UNCHANGED <<cfg, suLogger, suTLS, suLn, suServer, suAPI, suHandler>>
    /\ SetupOthers

SetupListener ==
    /\ suPc = "listen"
    /\ \E ok \in BOOLEAN :
          /\ suLn' = ok
          /\ IF ok
             THEN /\ suPc' = "server"
                  /\ UNCHANGED suErr
             ELSE SetupReturn("getting listener")
    /\ UNCHANGED <<cfg, suLogger, suTLS, suServer, suAPI, suHandler>>
    /\ SetupOthers

SetupNewServer ==
    /\ suPc = "server"
    /\ \E ok \in BOOLEAN :
          /\ suServer' = ok
          /\ IF ok
             THEN /\ suPc' = "api"
                  /\ UNCHANGED suErr
             ELSE SetupReturn("new server")
    /\ UNCHANGED <<cfg, suLogger, suTLS, suLn, suAPI, suHandler>>
    /\ SetupOthers

SetupNewAPI ==
    /\ suPc = "api"
    /\ \E ok \in BOOLEAN :
          /\ suAPI' = ok
          /\ IF ok
             THEN /\ suPc' = "handler"
                  /\ UNCHANGED suErr
             ELSE SetupReturn("new api")
    /\ UNCHANGED <<cfg, suLogger, suTLS, suLn, suServer, suHandler>>
    /\ SetupOthers

\* errors.Wrap of a nil error is nil: the last statement returns either way
SetupNewHandler ==
    /\ suPc = "handler"
    /\ \E ok \in BOOLEAN :
          /\ suHandler' = ok
          /\ SetupReturn(IF ok THEN None ELSE "new handler")
    /\ UNCHANGED <<cfg, suLogger, suTLS, suLn, suServer, suAPI>>
    /\ SetupOthers

NextSetup ==
    \/ SetupServerCall
    \/ SetupLogger
    \/ SetupAddress
    \/ SetupTLS
    \/ SetupLoadKeyPair
    \/ SetupStatsClient
    \/ SetupListener
    \/ SetupNewServer
    \/ SetupNewAPI
    \/ SetupNewHandler

SpecSetup == InitSetup /\ [][NextSetup]_vars

\* the bind scheme is https and the certificate path or the key path is empty
TLSPathMissing == cfg.scheme = "https" /\ (cfg.cert = "" \/ cfg.key = "")

\* C20: with scheme https and an empty certificate path or key path,
\* SetupServer never gets past the TLS block: no key pair is loaded, no
\* listener is opened, no Server, API or Handler is made, and when it returns
\* it returns an error.
C20_TLSPathsRequired ==
    TLSPathMissing
        => /\ suPc \in {"idle", "logger", "address", "tls", "done"}
           /\ ~suTLS /\ ~suLn /\ ~suServer /\ ~suAPI /\ ~suHandler
           /\ suPc = "done" => suErr # None

C20_Witness ==
    /\ suPc = "done"
    /\ cfg = [scheme |-> "https", cert |-> "cert.pem", key |-> ""]
    /\ suLogger
    /\ suErr = "certificate key path is required for TLS sockets"

\* ---------------------------------------------------------------------------
\* Command.Start and the Started channel
\* ---------------------------------------------------------------------------

InitStart ==
    /\ CoreQuiet
    /\ HolderQuiet
    /\ AggQuiet
    /\ CacheQuiet
    /\ LogQuiet
    /\ StartQuiet
    /\ suPc = "idle"
    /\ cfg \in Configs
    /\ suErr = None
    /\ suLogger = FALSE
    /\ suTLS = FALSE
    /\ suLn = FALSE
    /\ suServer = FALSE
    /\ suAPI = FALSE
    /\ suHandler = FALSE

StartOthers ==
    UNCHANGED <<viewVars, sendVars, thrVars, holderVars, aggVars, cacheVars, logVars>>

\* return errors.Wrap(err, msg): the deferred close is what remains
StartFails(msg) ==
    /\ stErr' = msg
    /\ stPc' = "return"

\* Start is entered: defer close(m.Started) is registered
StartCall ==
    /\ stPc = "idle"
    /\ stPc' = "setup"
    /\ UNCHANGED <<stErr, startedN, stSeen>>
    /\ UNCHANGED <<srvVars, cmdVars, setupVars>>
    /\ StartOthers

\* err = m.SetupServer(): the statements of SetupServer
StartSetupServer ==
    /\ stPc = "setup"
    /\ \/ SetupServerCall
       \/ SetupLogger
       \/ SetupAddress
       \/ SetupTLS
       \/ SetupLoadKeyPair
       \/ SetupStatsClient
       \/ SetupListener
       \/ SetupNewServer
       \/ SetupNewAPI
       \/ SetupNewHandler

\* if err != nil { return errors.Wrap(err, "setting up server") }
StartSetupDone ==
    /\ stPc = "setup"
    /\ suPc = "done"
    /\ IF suErr # None
       THEN StartFails("setting up server")
       ELSE /\ stPc' = "net"
            /\ UNCHANGED stErr
    /\ UNCHANGED <<startedN, stSeen>>
    /\ UNCHANGED <<srvVars, cmdVars, setupVars>>
    /\ StartOthers

\* a SetupNetworking step that also closes Started
StartSetupNetworking_closes ==
    /\ stPc = "net"
    /\ \E ok \in BOOLEAN :
          IF ok
          THEN /\ stPc' = "serve"
               /\ UNCHANGED stErr
          ELSE StartFails("setting up networking")
    /\ startedN' = startedN + 1
    /\ UNCHANGED stSeen
    /\ UNCHANGED <<srvVars, cmdVars, setupVars>>
    /\ StartOthers

\* err = m.SetupNetworking()
StartSetupNetworking ==
    /\ stPc = "net"
    /\ \E ok \in BOOLEAN :
          IF ok
          THEN /\ stPc' = "serve"
               /\ UNCHANGED stErr
          ELSE StartFails("setting up networking")
    /\ UNCHANGED <<startedN, stSeen>>
    /\ UNCHANGED <<srvVars, cmdVars, setupVars>>
    /\ StartOthers

\* go func() { m.Handler.Serve() ... }()
StartServe ==
    /\ stPc = "serve"
    /\ stPc' = "open"
    /\ UNCHANGED <<stErr, startedN, stSeen>>
    /\ UNCHANGED <<srvVars, cmdVars, setupVars>>
    /\ StartOthers

\* if err = m.Server.Open(); err != nil { return errors.Wrap(err, "opening server") }
StartOpen ==
    /\ stPc = "open"
    /\ \E ok \in BOOLEAN :
          IF ok
          THEN /\ stPc' = "log"
               /\ sPc' = "opened"
               /\ translate' = "open"
               /\ clusterSt' = "listening"
               /\ holder' = "open"
               /\ wg' = 3
               /\ task' = [k \in Tasks |-> "select"]
               /\ intervals' = [k \in Tasks |-> TRUE]
               /\ UNCHANGED stErr
          ELSE /\ StartFails("opening server")
               /\ UNCHANGED <<sPc, translate, clusterSt, holder, wg, task, intervals>>
    /\ UNCHANGED <<closing, taskRuns, taskErrs, openErr>>
    /\ UNCHANGED <<startedN, stSeen>>
    /\ UNCHANGED <<cmdVars, setupVars>>
    /\ StartOthers

\* m.logger.Printf("Listening as %s\n", m.Server.URI); return nil
StartLog ==
    /\ stPc = "log"
    /\ stPc' = "return"
    /\ UNCHANGED <<stErr, startedN, stSeen>>
    /\ UNCHANGED <<srvVars, cmdVars, setupVars>>
    /\ StartOthers

\* Start returns: the deferred close(m.Started) runs (a panic if the channel
\* were closed already) and the caller has the result
StartReturn ==
    /\ stPc = "return"
    /\ IF startedN > 0
       THEN /\ panicked' = TRUE
            /\ UNCHANGED <<stPc, startedN, started>>
       ELSE /\ startedN' = startedN + 1
            /\ stPc' = "returned"
            /\ started' = (IF stErr = None THEN "ok" ELSE "failed")
            /\ UNCHANGED panicked
    /\ UNCHANGED <<stErr, stSeen>>
    /\ UNCHANGED <<wPc, waitVia, waitRet, sigQ, sigSent, hardPc, exitStatus, done,
                   closePc, closeRes, handlerCl, handlerErr, logErr, logCloser>>
    /\ UNCHANGED <<srvVars, setupVars>>
    /\ StartOthers

\* a goroutine blocked in <-m.Started is released: the channel is closed
StartedReceive ==
    /\ ~panicked
    /\ startedN > 0
    /\ stSeen = None
    /\ stSeen' = stPc
    /\ UNCHANGED <<stPc, stErr, startedN>>
    /\ UNCHANGED <<srvVars, cmdVars, setupVars>>
    /\ StartOthers

NextStart ==
    \/ StartCall
    \/ StartSetupServer
    \/ StartSetupDone
    \/ StartSetupNetworking
    \/ StartServe
    \/ StartOpen
    \/ StartLog
    \/ StartReturn
    \/ StartedReceive

SpecStart == InitStart /\ [][NextStart]_vars

\* C21: Started is closed at most once and is closed exactly when Start has
\* returned, whether Start returns nil or the error of SetupServer,
\* SetupNetworking or Server.Open; a receiver on Started is released only
\* after Start has returned, and nothing panics on a second close.
C21_StartedClosedOnReturn ==
    /\ startedN <= 1
    /\ startedN = 1 <=> stPc = "returned"
    /\ stSeen \in {None, "returned"}
    /\ ~panicked
    /\ stPc = "returned"
          => /\ stErr \in {None, "setting up server", "setting up networking",
                           "opening server"}
             /\ stErr = None <=> sPc = "opened"
             /\ stErr = "setting up server" <=> (suPc = "done" /\ suErr # None)

C21_Witness ==
    /\ stPc = "returned"
    /\ stErr = "opening server"
    /\ startedN = 1
    /\ stSeen = "returned"

\* ---------------------------------------------------------------------------
\* The loggers
\* ---------------------------------------------------------------------------

DEBUG == 1
INFO == 2
WARN == 3
ERROR == 4
FATAL == 5

\* LogLevel.String
LevelString(l) ==
    CASE l = 1 -> "DEBUG"
      [] l = 2 -> "INFO"
      [] l = 3 -> "WARNING"
      [] l = 4 -> "ERROR"
      [] l = 5 -> "FATAL"

\* Logf: the lines of the underlying log.Logger after the call
Logf(out, cfgLevel, msgLevel, f) ==
    IF cfgLevel > msgLevel
    THEN out
    ELSE Append(out, <<LevelString(msgLevel), f>>)

\* the message level each method of standardLogger and verboseLogger hands to
\* Logf (the two types use the same levels)
MethodLevel(method) ==
    CASE method = "Printf" -> DEBUG
      [] method = "Debugf" -> DEBUG
      [] method = "Infof" -> INFO
      [] method = "Warnf" -> WARN
      [] method = "Errorf" -> ERROR

\* NewStandardLogger / NewVerboseLogger: the logLevel of the logger
NewLoggerLevel(kind) == IF kind = "verbose" THEN DEBUG ELSE INFO

InitLog ==
    /\ CoreQuiet
    /\ HolderQuiet
    /\ AggQuiet
    /\ CacheQuiet
    /\ SetupQuiet
    /\ StartQuiet
    /\ lgKind \in {"standard", "verbose"}
    /\ lgLevel = NewLoggerLevel(lgKind)
    /\ lgOut = <<>>
    /\ lgLast = NoLine
    /\ lgCalls = 0

LogOthers ==
    UNCHANGED <<CoreVars, holderVars, aggVars, cacheVars, setupVars, startVars>>

\* one call of a method of the logger
LogCall(method) ==
    /\ lgCalls' = lgCalls + 1
    /\ lgOut' = Logf(lgOut, lgLevel, MethodLevel(method), "msg")
    /\ lgLast' = [method |-> method, emitted |-> lgOut' # lgOut]
    /\ UNCHANGED <<lgKind, lgLevel>>
    /\ LogOthers

\* Printf
LogPrintf ==
    /\ lgCalls < MaxLogs
    /\ LogCall("Printf")

\* Debugf
LogDebugf ==
    /\ lgCalls < MaxLogs
    /\ LogCall("Debugf")

\* Infof
LogInfof ==
    /\ lgCalls < MaxLogs
    /\ LogCall("Infof")

\* Warnf
LogWarnf ==
    /\ lgCalls < MaxLogs
    /\ LogCall("Warnf")

\* Errorf
LogErrorf ==
    /\ lgCalls < MaxLogs
    /\ LogCall("Errorf")

NextLog ==
    \/ LogPrintf
    \/ LogDebugf
    \/ LogInfof
    \/ LogWarnf
    \/ LogErrorf

SpecLog == InitLog /\ [][NextLog]_vars

\* C22: a call emits a line exactly when its level is at least the level of
\* the logger: the verbose logger emits the lines of all five methods, the
\* standard logger emits those of Infof, Warnf, Errorf and of Printf (the
\* server's log lines) and suppresses those of Debugf.
C22_LoggerLevels ==
    lgLast.method # "none"
        => lgLast.emitted = (lgKind = "verbose" \/ lgLast.method # "Debugf")

\* C22, the part about Logf alone: a line is emitted exactly when the level
\* of the message is not below the level of the logger, and it carries the
\* name of the level.
C22_LogfThreshold ==
    /\ lgLast.method # "none"
          => (lgLast.emitted <=> MethodLevel(lgLast.method) >= lgLevel)
    /\ \A k \in 1..Len(lgOut) :
          \E l \in lgLevel..ERROR : lgOut[k] = <<LevelString(l), "msg">>

\* ---------------------------------------------------------------------------
\* The watermark of one view over longer runs
\* ---------------------------------------------------------------------------

WmShards == 0..MaxWmShard

\* the first column of each shard
WmColumns == {sh * ShardWidth : sh \in WmShards}

\* NewView on a directory that holds any set of empty fragment files
InitWatermark ==
    /\ vState = "new"
    /\ fragments = EmptyMap
    /\ maxShard = 0
    /\ files \in UNION {[S -> {{}}] : S \in SUBSET WmShards}
    /\ sent = <<>>
    /\ last = NoOp
    /\ prev = NoPrev
    /\ nops = 0
    /\ fresh = (DOMAIN files = {})
    /\ SendQuiet
    /\ ThreadsQuiet
    /\ ServerQuiet
    /\ CommandQuiet
    /\ AuxQuiet

WmOthers == UNCHANGED <<prev, fresh, sendVars, thrVars, srvVars, cmdVars, auxVars>>

\* View.open, every fragment file opening
WmOpen ==
    /\ vState = "new"
    /\ LET r == open(fragments, files, TRUE, NoShard, {}, NoShard, {})
       IN /\ fragments' = r.fragments
          /\ vState' = "open"
          /\ last' = [NoOp EXCEPT !.op = "open", !.preMax = maxShard]
    /\ UNCHANGED <<maxShard, files, sent, nops>>
    /\ WmOthers

\* View.CreateFragmentIfNotExists
WmCreate ==
    /\ vState = "open"
    /\ nops < MaxWmOps
    /\ nops' = nops + 1
    /\ \E shard \in WmShards, openOk \in BOOLEAN, sendOk \in BOOLEAN :
          /\ ~openOk => sendOk
          /\ (shard \in DOMAIN fragments \/ shard <= maxShard) => sendOk
          /\ shard \in DOMAIN fragments => openOk
          /\ LET r == createFragmentIfNotExists(fragments, files, maxShard, sent,
                                                shard, openOk, sendOk)
             IN /\ fragments' = r.fragments
                /\ files' = r.files
                /\ maxShard' = r.maxShard
                /\ sent' = r.sent
                /\ last' = [NoOp EXCEPT !.op = "create", !.shard = shard,
                                        !.err = r.err, !.bcast = r.bcast,
                                        !.preMax = maxShard,
                                        !.had = shard \in DOMAIN fragments]
    /\ UNCHANGED vState
    /\ WmOthers

\* a deleteFragment that lowers the watermark to the highest shard left
WmDelete_lowers ==
    /\ vState = "open"
    /\ nops < MaxWmOps
    /\ nops' = nops + 1
    /\ \E shard \in DOMAIN fragments, closeOk \in BOOLEAN, removeOk \in BOOLEAN :
          /\ ~closeOk => removeOk
          /\ LET r == deleteFragment(fragments, files, shard, closeOk, removeOk, TRUE)
             IN /\ fragments' = r.fragments
                /\ files' = r.files
                /\ maxShard' = HighestOf(DOMAIN r.fragments)
                /\ last' = [NoOp EXCEPT !.op = "delete", !.shard = shard,
                                        !.err = r.err # None, !.preMax = maxShard,
                                        !.had = TRUE]
    /\ UNCHANGED <<vState, sent>>
    /\ WmOthers

\* View.deleteFragment of a fragment of the mapping
WmDelete ==
    /\ vState = "open"
    /\ nops < MaxWmOps
    /\ nops' = nops + 1
    /\ \E shard \in DOMAIN fragments, closeOk \in BOOLEAN, removeOk \in BOOLEAN :
          /\ ~closeOk => removeOk
          /\ LET r == deleteFragment(fragments, files, shard, closeOk, removeOk, TRUE)
             IN /\ fragments' = r.fragments
                /\ files' = r.files
                /\ last' = [NoOp EXCEPT !.op = "delete", !.shard = shard,
                                        !.err = r.err # None, !.preMax = maxShard,
                                        !.had = TRUE]
    /\ UNCHANGED <<vState, maxShard, sent>>
    /\ WmOthers

\* View.setBit / View.setValue: CreateFragmentIfNotExists of the shard of the
\* column, then the write to the fragment
WmSetBit ==
    /\ vState = "open"
    /\ nops < MaxWmOps
    /\ nops' = nops + 1
    /\ \E col \in WmColumns, sendOk \in BOOLEAN :
          /\ (ShardOf(col) \in DOMAIN fragments \/ ShardOf(col) <= maxShard) => sendOk
          /\ LET r == setBit(fragments, files, maxShard, sent, 7, col,
                             TRUE, sendOk, TRUE)
             IN /\ fragments' = r.fragments
                /\ files' = r.files
                /\ maxShard' = r.maxShard
                /\ sent' = r.sent
                /\ last' = [NoOp EXCEPT !.op = "setBit", !.shard = ShardOf(col),
                                        !.row = 7, !.col = col,
                                        !.err = r.err, !.changed = r.changed,
                                        !.bcast = r.bcast, !.preMax = maxShard,
                                        !.had = ShardOf(col) \in DOMAIN fragments]
    /\ UNCHANGED vState
    /\ WmOthers

\* View.close, every fragment closing
WmClose ==
    /\ vState = "open"
    /\ LET r == close(fragments, NoShard, {})
       IN /\ fragments' = r.fragments
          /\ vState' = "closed"
          /\ last' = [NoOp EXCEPT !.op = "close", !.preMax = maxShard]
    /\ UNCHANGED <<maxShard, files, sent, nops>>
    /\ WmOthers

NextWatermark ==
    \/ WmOpen
    \/ WmCreate
    \/ WmDelete
    \/ WmSetBit
    \/ WmClose

SpecWatermark == InitWatermark /\ [][NextWatermark]_vars

\* C23: the shards of the CreateShard messages a view has broadcast are
\* strictly increasing (so no shard is broadcast twice, also not after its
\* fragment was deleted and made again), shard 0 is never broadcast, and a
\* call for a shard that is not above the watermark broadcasts nothing.
C23_BroadcastShardsIncrease ==
    /\ \A i, j \in 1..Len(sent) : i < j => sent[i].shard < sent[j].shard
    /\ \A i \in 1..Len(sent) : sent[i].shard > 0
    /\ (last.op \in {"create", "setBit"} /\ last.shard <= last.preMax)
          => last.bcast = "none"
    /\ (last.op \in {"create", "setBit"} /\ last.bcast # "none")
          => /\ sent[Len(sent)].shard = last.shard
             /\ last.shard > last.preMax
             /\ ~last.had

C23_Witness ==
    /\ Len(sent) = 2
    /\ sent[1].shard = 1
    /\ sent[2].shard = 2
    /\ last.op = "create"
    /\ last.shard = 1
    /\ ~last.had
    /\ ~last.err
    /\ last.bcast = "none"
    /\ 1 \in DOMAIN fragments

\* C28: no step of a view lowers maxShard.
C28_WatermarkNeverDecreases == [][maxShard' >= maxShard]_vars

C28_Witness ==
    /\ last.op = "delete"
    /\ ~last.err
    /\ last.shard = 2
    /\ last.preMax = 2
    /\ maxShard = 2
    /\ 2 \notin DOMAIN fragments

\* ---------------------------------------------------------------------------
\* The read operations of a view
\* ---------------------------------------------------------------------------

\* View.value: CreateFragmentIfNotExists of the shard of the column, then
\* fragment.value, which reads the bits of the column
value(frs, fls, ms, snt, columnID, openOk, sendOk) ==
    LET shard == ShardOf(columnID)
        c == createFragmentIfNotExists(frs, fls, ms, snt, shard, openOk, sendOk)
    IN IF c.err
       THEN c @@ [exists |-> FALSE]
       ELSE c @@ [exists |-> \E b \in c.files[shard] : b[2] = columnID]

\* View.allFragments: the fragments of the mapping, which it leaves as it is
allFragments(frs) == {frs[sh] : sh \in DOMAIN frs}

ReadOps == {"row", "value", "sum", "min", "max", "rangeOp", "rangeBetween"}

\* an operation that goes over allFragments() and reads each fragment
ReadAll(op) ==
    /\ vState = "open"
    /\ nops < MaxWmOps
    /\ nops' = nops + 1
    /\ last' = [NoOp EXCEPT !.op = op, !.preMax = maxShard,
                            !.had = allFragments(fragments) # {}]
    /\ UNCHANGED <<vState, fragments, maxShard, files, sent>>
    /\ WmOthers

\* View.row
RdRow ==
    /\ ReadAll("row")

\* View.value
RdValue ==
    /\ vState = "open"
    /\ nops < MaxWmOps
    /\ nops' = nops + 1
    /\ \E col \in WmColumns, openOk \in BOOLEAN, sendOk \in BOOLEAN :
          /\ ~openOk => sendOk
          /\ (ShardOf(col) \in DOMAIN fragments \/ ShardOf(col) <= maxShard) => sendOk
          /\ ShardOf(col) \in DOMAIN fragments => openOk
          /\ LET r == value(fragments, files, maxShard, sent, col, openOk, sendOk)
             IN /\ fragments' = r.fragments
                /\ files' = r.files
                /\ maxShard' = r.maxShard
                /\ sent' = r.sent
                /\ last' = [NoOp EXCEPT !.op = "value", !.shard = ShardOf(col),
                                        !.col = col, !.err = r.err,
                                        !.bcast = r.bcast, !.preMax = maxShard,
                                        !.had = ShardOf(col) \in DOMAIN fragments]
    /\ UNCHANGED vState
    /\ WmOthers

\* View.sum
RdSum ==
    /\ ReadAll("sum")

\* View.min
RdMin ==
    /\ ReadAll("min")

\* View.max
RdMax ==
    /\ ReadAll("max")

\* View.rangeOp
RdRangeOp ==
    /\ ReadAll("rangeOp")

\* View.rangeBetween
RdRangeBetween ==
    /\ ReadAll("rangeBetween")

NextReads ==
    \/ WmOpen
    \/ RdRow
    \/ RdValue
    \/ RdSum
    \/ RdMin
    \/ RdMax
    \/ RdRangeOp
    \/ RdRangeBetween

SpecReads == InitWatermark /\ [][NextReads]_vars

\* C25: a read operation of the view (row, value, sum, min, max, rangeOp,
\* rangeBetween) leaves the mapping, maxShard and the broadcasts as they
\* were, also when the shard it addresses has no fragment.
C25_ReadsLeaveViewUnchanged ==
    [][(nops' = nops + 1 /\ last'.op \in ReadOps)
          => /\ fragments' = fragments
             /\ maxShard' = maxShard
             /\ sent' = sent]_vars

\* C25 without value: the operations that go over allFragments() change
\* nothing.
C25_LoopReadsLeaveViewUnchanged ==
    [][(nops' = nops + 1 /\ last'.op \in ReadOps \ {"value"})
          => /\ fragments' = fragments
             /\ maxShard' = maxShard
             /\ files' = files
             /\ sent' = sent]_vars

\* ---------------------------------------------------------------------------
\* Server.Close and the goroutines of HandleRemoteStatus
\* ---------------------------------------------------------------------------

ShutdownOthers ==
    UNCHANGED <<viewVars, sendVars, thrVars, cmdVars, aggVars, cacheVars,
                setupVars, moreVars>>

\* Open: s.holder.Open(); the opened event of the holder fires when it
\* succeeds
ShOpenHolder ==
    /\ sPc = "open_holder"
    /\ \E ok \in BOOLEAN :
          IF ok
          THEN /\ holder' = "open"
               /\ hState' = "open"
               /\ opened' = TRUE
               /\ sPc' = "open_state"
               /\ UNCHANGED openErr
          ELSE /\ OpenFails("opening Holder")
               /\ UNCHANGED <<holder, hState, opened>>
    /\ UNCHANGED <<closing, wg, task, taskRuns, taskErrs, clusterSt, translate, intervals>>
    /\ UNCHANGED <<clusterState, hIndexes, hFields, hViews, localMax, remoteMax,
                   reported, status, hLast, hOps, hPanic>>
    /\ ShutdownOthers

\* a message about the cluster reaches the node while it serves requests
ShReceiveClusterMessage ==
    /\ ~closing
    /\ Receive({pb \in ProtoMessages : pb.type = "ClusterStatus"})

\* a NodeStatus reaches HandleRemoteStatus while the node serves requests
ShHandleRemoteStatus ==
    /\ ~closing
    /\ HandleRemoteStatus

\* a server whose diagnostics and runtime monitors are disabled by their
\* intervals; the anti-entropy interval is either
InitShutdown ==
    /\ InitServer
    /\ ~intervals["monitorRuntime"]
    /\ ~intervals["monitorDiagnostics"]

NextShutdown ==
    \/ OpenCall
    \/ OpenTranslate
    \/ OpenWaitForStarted
    \/ ShOpenHolder
    \/ OpenSetNodeState
    \/ OpenListenForJoins
    \/ OpenStartMonitors
    \/ TaskStart
    \/ TaskSeesClosing
    \/ TaskTick
    \/ TaskWorkEnds
    \/ ShReceiveClusterMessage
    \/ ShHandleRemoteStatus
    \* the goroutine of HandleRemoteStatus is not counted in s.wg and does not
    \* read s.closing: it runs whenever the opened event has fired
    \/ MergeGoroutine
    \/ CloseSignal
    \/ CloseWait
    \/ CloseCluster
    \/ CloseHolder
    \/ CloseTranslate

SpecShutdown == InitShutdown /\ [][NextShutdown]_vars

\* after Server.Close has returned no step changes the holder
C32_HolderQuietAfterClose ==
    [][sPc = "closed"
          => <<hIndexes, hFields, hViews, remoteMax>>' =
                 <<hIndexes, hFields, hViews, remoteMax>>]_vars

\* after Server.Close has returned no goroutine of HandleRemoteStatus waits
\* for an opened event that has not fired (nothing fires it any more)
C32_NoneBlockedAfterClose ==
    sPc = "closed" => \A n \in StatusIds : ~(status[n].st = "waiting" /\ ~opened)

\* C32: after Server.Close has returned no goroutine of the server changes the
\* holder: no merge of a NodeStatus accepted before the close applies a schema
\* or a remote max shard to the closed holder, and no such goroutine is left
\* blocked on the opened event of the holder.
C32_NoGoroutineOutlivesClose ==
    /\ [](sPc = "closed"
             => \A n \in StatusIds : ~(status[n].st = "waiting" /\ ~opened))
    /\ [][sPc = "closed"
             => <<hIndexes, hFields, hViews, remoteMax>>' =
                    <<hIndexes, hFields, hViews, remoteMax>>]_vars

====
